---- MODULE Spec2Model ----
(***************************************************************************)
(* Distributed-Path-Finder: the routing engine of one federation of group  *)
(* servers.  The state machines of this module share its variables; each   *)
(* specification leaves the variables of the others at their idle values:  *)
(*   SpecPool    - the dispatcher and worker pool of one group server      *)
(*                 (Server::new, Server::serve, Worker::work);             *)
(*   SpecRoute   - the forwarding of PathRequests between group servers    *)
(*                 (Worker::serve_request over Graph::find_way and         *)
(*                 Graph::find_way_local, the directory, the transport);   *)
(*   SpecSearch, SpecSearchU64 - Graph::find_way_local and Graph::find_way *)
(*                 applied to families of small region graphs;             *)
(*   SpecZmq, SpecZmqPeer - ZMQConnectionsManager::send_request against    *)
(*                 any peer, and against ZMQNodeListener;                  *)
(*   SpecConn    - the connection pool of RedisConnector;                  *)
(*   SpecBook    - NetworkInfo and its update task;                        *)
(*   SpecPublish - the bootstraps of several servers on one directory.     *)
(* Spec is SpecPool.                                                       *)
(***************************************************************************)
EXTENDS Integers, Sequences, FiniteSets, Bags, TLC

VARIABLES
    \* ---- worker pool of one group server (lib.rs) ----
    built,      \* number of workers Server::new has constructed and spawned
    free,       \* the "free" channel: sequence of worker ids
    dpc,        \* dispatcher position: "new" | "recv_free" | "listen" | "crashed"
    dheld,      \* worker id the dispatcher took from the free channel, or NoWorker
    lres,       \* outcome of the dispatcher's last get_new_request
    task,       \* task[w]: worker w's input channel, a sequence of PathRequests
    wpc,        \* wpc[w]: "unborn" | "start" | "recv" | "serving" | "done" | "dead"
    wcur,       \* wcur[w]: the request worker w is serving, or NoRequest
    wres,       \* wres[w]: how serve_request ended for wcur[w]
    accepted,   \* history: number of requests the dispatcher took from the listener
    received,   \* history: received[w] = requests worker w took from its channel
    emitted,    \* history: emitted[w] = free-channel sends of w's loop (lib.rs:227)
    placed,     \* history: placed[w] = the requests sent on w's channel, in order
    taken,      \* history: taken[w] = the requests w received, in order
    \* ---- federation routing ----
    data,       \* which rows the regions' node and vertex files hold
    dirv,       \* which contents the directory holds
    inflight,   \* bag of submitted/forwarded requests not yet served, with history
    replies,    \* sequence of PathRequests replied to the submitter
    fwdlog,     \* history: every forward sent, in send order
    lastserve,  \* history: what the last serve_request did
    \* ---- one search of one region graph ----
    sin,        \* the graph, source and target a search is called with
    sout,       \* what the search handed back, or NoSearch
    \* ---- ZMQConnectionsManager::send_request (node_connector.rs) ----
    zpc,        \* zpc[s]: "idle" | "loop" | "send" | "recv" | "ok" | "err"
    zreq,       \* zreq[s]: the request sender s was called with
    ztarget,    \* ztarget[s]: the target_id sender s was called with
    zlock,      \* zlock[t]: the sender holding the mutex of socket t, or 0
    zwire,      \* history: zwire[s] = every <<socket, payload>> s has sent
    zbad,       \* history: zbad[s] = replies other than "OK" that s received
    zlast,      \* zlast[s]: the last reply s received, or NoReply
    zerr,       \* zerr[s]: why the call of s ended in Err, or "none"
    lgot,       \* lgot[s]: how many sends of s the peer's listener has taken
    \* ---- RedisConnector: the connection pool (redis_connector.rs) ----
    permits,    \* permits left in the semaphore conn_count
    cwait,      \* tasks waiting in conn_count.acquire(), in arrival order
    pool,       \* conn_pool: the Vec of connections, last element on top
    cpc,        \* cpc[t]: "idle" | "wait" | "permit" | "query" | "release" | "return" | "panicked"
    cop,        \* cop[t]: the directory operation task t is in, or "none"
    cheld,      \* cheld[t]: the connection task t has checked out, or 0
    cpermits,   \* cpermits[t]: the permits task t holds
    \* ---- NetworkInfo: the address book (redis_connector.rs) ----
    book,       \* servers: the map from server id to ServerInfo, or NoServerInfo
    bwriter,    \* TRUE while the update task holds the write guard
    breaders,   \* the readers holding a read guard
    spc,        \* update task: "next" | "lock" | "insert" | "dead"
    supd,       \* the ServerInfo the update task has decoded, or NoServerInfo
    sfail,      \* why the update task ended, or "none"
    bapplied,   \* history: the updates inserted, in order
    rpc,        \* rpc[r]: "idle" | "lock" | "copy"
    rop,        \* rop[r]: the query of reader r: 0 for get_servers, else the id
    rcopy,      \* rcopy[r]: what the last query of r returned
    rseen,      \* history: rseen[r] = Len(bapplied) when r copied, or NotRead
    \* ---- the bootstraps of several servers publishing to one directory ----
    pdir,       \* the directory: region_server and node_region keys
    ppc,        \* ppc[p]: "set_group" | "del" | "mset_nx" | "done"
    pidx        \* pidx[p]: index in the group's regions of the region p publishes

poolVars == <<built, free, dpc, dheld, lres, task, wpc, wcur, wres, accepted, received, emitted,
              placed, taken>>
routeVars == <<data, dirv, inflight, replies, fwdlog, lastserve>>
searchVars == <<sin, sout>>
zmqVars == <<zpc, zreq, ztarget, zlock, zwire, zbad, zlast, zerr, lgot>>
connVars == <<permits, cwait, pool, cpc, cop, cheld, cpermits>>
bookVars == <<book, bwriter, breaders, spc, supd, sfail, bapplied, rpc, rop, rcopy, rseen>>
pubVars == <<pdir, ppc, pidx>>
ioVars == <<zmqVars, connVars, bookVars, pubVars>>
vars == <<poolVars, routeVars, searchVars, ioVars>>

(***************************************************************************)
(* Small helpers on sequences.                                             *)
(***************************************************************************)
Range(s) == {s[i] : i \in 1..Len(s)}

Contains(s, x) == \E i \in 1..Len(s) : s[i] = x

Count(s, x) == Cardinality({i \in 1..Len(s) : s[i] = x})

NoDuplicates(s) == \A i, j \in 1..Len(s) : i # j => s[i] # s[j]

RECURSIVE SumSeq(_)
SumSeq(s) == IF s = <<>> THEN 0 ELSE Head(s) + SumSeq(Tail(s))

(***************************************************************************)
(* graph_provider.rs: a region's graph is loaded from two row files.       *)
(* RawNode = (id, cord_x, cord_y, region); RawVertex = (id, a, b, weight,  *)
(* region_bits).  HashMap insert keeps the last row of a repeated id.      *)
(***************************************************************************)
RawNode(id, region) == [id |-> id, cord_x |-> id, cord_y |-> region, region |-> region]

RawVertex(id, a, b, weight, bits) ==
    [id |-> id, a |-> a, b |-> b, weight |-> weight, region_bits |-> bits]

\* Node::from(RawNode): connections start empty.
NodeFromRaw(raw) ==
    [connections |-> <<>>, id |-> raw.id, region |-> raw.region,
     cord_x |-> raw.cord_x, cord_y |-> raw.cord_y]

\* Vertex::from(RawVertex): the '0'/'1' string becomes a bit vector.
VertexFromRaw(raw) ==
    [a |-> raw.a, b |-> raw.b, weight |-> raw.weight, id |-> raw.id,
     region_bits |-> raw.region_bits]

\* nodes.insert(node.id, node) over the node rows, in file order.
RECURSIVE InsertNodes(_, _)
InsertNodes(rows, nodes) ==
    IF rows = <<>> THEN nodes
    ELSE LET node == NodeFromRaw(Head(rows))
             rest == [n \in DOMAIN nodes \ {node.id} |-> nodes[n]]
         IN InsertNodes(Tail(rows), (node.id :> node) @@ rest)

\* nodes.get_mut(&idx).map(|node| node.connections.push(vertex_id))
PushConnection(nodes, idx, vertex_id) ==
    IF idx \in DOMAIN nodes
    THEN [nodes EXCEPT ![idx].connections = Append(@, vertex_id)]
    ELSE nodes

\* The vertex rows, in file order: push the id on both endpoints that are
\* stored here, then vertices.insert(vertex.id, vertex).
RECURSIVE InsertVertices(_, _, _)
InsertVertices(rows, nodes, vertices) ==
    IF rows = <<>> THEN [nodes |-> nodes, vertices |-> vertices]
    ELSE LET vertex == VertexFromRaw(Head(rows))
             n1 == PushConnection(nodes, vertex.a, vertex.id)
             n2 == PushConnection(n1, vertex.b, vertex.id)
             rest == [v \in DOMAIN vertices \ {vertex.id} |-> vertices[v]]
         IN InsertVertices(Tail(rows), n2, (vertex.id :> vertex) @@ rest)

\* GraphProvider::get_region followed by Graph::new.
LoadGraph(nodeRows, vertexRows, id) ==
    LET nodes == InsertNodes(nodeRows, <<>>)
        filled == InsertVertices(vertexRows, nodes, <<>>)
    IN [nodes |-> filled.nodes, vertices |-> filled.vertices, region_idx |-> id]

(***************************************************************************)
(* domain.rs: NodeInfo(node, region) is a pair; PathPoint copies a node.   *)
(***************************************************************************)
NodeInfo(node, region) == <<node, region>>

\* impl From<Node> for PathPoint
PathPointFrom(node) ==
    [id |-> node.id, region_id |-> node.region, cord_x |-> node.cord_x, cord_y |-> node.cord_y]

(***************************************************************************)
(* graph.rs: results of a search.                                          *)
(***************************************************************************)
NoRegion == 0 - 1

Panicked == 0 - 2

CRegionKnown(node, region) == [kind |-> "CRegionKnown", node |-> node, region |-> region]

CRegionUnknown(node) == [kind |-> "CRegionUnknown", node |-> node, region |-> NoRegion]

\* Continuation::get_node_idx
get_node_idx(continuation) == continuation.node

NoContinuation == [kind |-> "none", node |-> NoRegion, region |-> NoRegion]

TargetReached(path, cost) ==
    [kind |-> "TargetReached", path |-> path, cost |-> cost, continuation |-> NoContinuation]

Continue(path, cost, continuation) ==
    [kind |-> "Continue", path |-> path, cost |-> cost, continuation |-> continuation]

\* What a search hands back: Ok(results), Err(error), or a panic of the thread.
SearchOk(results) == [status |-> "ok", error |-> "none", results |-> results]

SearchErr(error) == [status |-> "err", error |-> error, results |-> <<>>]

SearchPanic(why) == [status |-> "panic", error |-> why, results |-> <<>>]

\* Vertex::get_neighbour: the other endpoint, or panic!("Invalid vertex chosen").
get_neighbour(vertex, a) ==
    IF a = vertex.a THEN vertex.b
    ELSE IF a = vertex.b THEN vertex.a
    ELSE Panicked

\* Graph::get_node
get_node(graph, idx) == idx \in DOMAIN graph.nodes

(***************************************************************************)
(* PriorityQueue<(NodeIdx, Vec<PathPoint>), P> of the priority_queue       *)
(* crate: a map from item to priority; pop takes an item of the GREATEST   *)
(* priority.  Which of several items of equal priority is popped is the    *)
(* crate's business: every one of them is a possible pop.                  *)
(***************************************************************************)
QueuePush(queue, node, path, prio) ==
    {e \in queue : ~(e.node = node /\ e.path = path)}
        \cup {[node |-> node, path |-> path, prio |-> prio]}

QueuePopChoices(queue) == {e \in queue : \A f \in queue : f.prio <= e.prio}

(***************************************************************************)
(* The machine words of the costs.  graph.rs keeps weights and returned    *)
(* costs in u64 and the priorities of find_way_local in i64.  The words of *)
(* the model are CostBits wide: a u64 is a number in 0..2^CostBits - 1, an *)
(* i64 a number in -2^(CostBits-1)..2^(CostBits-1) - 1.                    *)
(***************************************************************************)
CostBits == 8

RECURSIVE TwoTo(_)
TwoTo(n) == IF n = 0 THEN 1 ELSE 2 * TwoTo(n - 1)

\* i64::MIN and i64::MAX of words of `bits` bits.
I64Min(bits) == 0 - TwoTo(bits - 1)

I64Max(bits) == TwoTo(bits - 1) - 1

\* `x as i64` of a u64 x (graph.rs:142) and `x as u64` of an i64 x
\* (graph.rs:132): the same bits read the other way.
as_i64(x, bits) == IF x > I64Max(bits) THEN x - TwoTo(bits) ELSE x

as_u64(x, bits) == IF x < 0 THEN x + TwoTo(bits) ELSE x

\* The i64 that +, - and * leave when the exact result is x and the build
\* does not check overflow; with overflow checks the thread panics whenever
\* Overflows(x).
Wrapped(x, bits) == ((x - I64Min(bits)) % TwoTo(bits)) + I64Min(bits)

Overflows(x, bits) == x < I64Min(bits) \/ x > I64Max(bits)

(***************************************************************************)
(* Graph::find_way_local (graph.rs:120-148), on words of `bits` bits.      *)
(***************************************************************************)
\* The for loop over node.connections, from connection i on (graph.rs:134-145).
\* `overflow` tells whether an addition or a negation of graph.rs:142 has
\* overflowed so far.
RECURSIVE LocalExpand(_, _, _, _, _, _, _, _, _)
LocalExpand(graph, node, path, cost, i, queue, visited, overflow, bits) ==
    LET out(status, error) ==
            [status |-> status, error |-> error, queue |-> queue, visited |-> visited,
             overflow |-> overflow]
    IN
    IF i > Len(node.connections) THEN out("ok", "none")
    ELSE LET vertex_id == node.connections[i] IN
         IF vertex_id \notin DOMAIN graph.vertices THEN out("err", "VertexNotFound")
         ELSE LET vertex == graph.vertices[vertex_id]
                  next == get_neighbour(vertex, node.id)
              IN IF next = Panicked THEN out("panic", "Invalid vertex chosen")
                 ELSE IF next \notin visited /\ next \in DOMAIN graph.nodes
                 THEN LET next_node == graph.nodes[next]
                          new_path == Append(path, PathPointFrom(next_node))
                          sum == cost + as_i64(vertex.weight, bits)
                          negated == 0 - Wrapped(sum, bits)
                      IN LocalExpand(graph, node, path, cost, i + 1,
                                     QueuePush(queue, next_node.id, new_path,
                                               Wrapped(negated, bits)),
                                     visited \cup {next},
                                     overflow \/ Overflows(sum, bits)
                                              \/ Overflows(negated, bits),
                                     bits)
                 ELSE LocalExpand(graph, node, path, cost, i + 1, queue, visited,
                                  overflow, bits)

\* The while loop (graph.rs:127-146): the set of results over the pops of
\* equal priority and, where an operation overflows, over the builds with
\* and without overflow checks.
RECURSIVE LocalSearch(_, _, _, _, _)
LocalSearch(graph, target, queue, visited, bits) ==
    IF queue = {} THEN {SearchErr("Unreachable")}
    ELSE UNION {
        LET cost == Wrapped(e.prio * (0 - 1), bits)
            node == graph.nodes[e.node]
            checked == IF Overflows(e.prio * (0 - 1), bits)
                       THEN {SearchPanic("attempt to multiply with overflow")} ELSE {}
        IN checked \cup
           (IF node.id = target[1]
            THEN {SearchOk(<<TargetReached(e.path, as_u64(cost, bits))>>)}
            ELSE LET x == LocalExpand(graph, node, e.path, cost, 1, queue \ {e}, visited,
                                      FALSE, bits)
                 IN (IF x.overflow THEN {SearchPanic("attempt to add with overflow")}
                     ELSE {})
                    \cup
                    (IF x.status = "ok"
                     THEN LocalSearch(graph, target, x.queue, x.visited, bits)
                     ELSE IF x.status = "err" THEN {SearchErr(x.error)}
                     ELSE {SearchPanic(x.error)}))
        : e \in QueuePopChoices(queue)}

\* Graph::find_way_local on words of `bits` bits.
find_way_local_on(graph, source, target, bits) ==
    IF source[1] \notin DOMAIN graph.nodes THEN {SearchErr("StartNodeNotFound")}
    ELSE LET start_node == graph.nodes[source[1]]
         IN LocalSearch(graph, target,
                        QueuePush({}, start_node.id, <<PathPointFrom(start_node)>>, 0),
                        {}, bits)

\* Mutant of find_way_local: a search that ends without the target reports
\* the target reached at the source, at no cost.
find_way_local_never_unreachable(graph, source, target) ==
    {IF r = SearchErr("Unreachable")
     THEN SearchOk(<<TargetReached(<<PathPointFrom(graph.nodes[source[1]])>>, 0)>>)
     ELSE r : r \in find_way_local_on(graph, source, target, CostBits)}

find_way_local(graph, source, target) == find_way_local_on(graph, source, target, CostBits)

(***************************************************************************)
(* Graph::find_way (graph.rs:150-193).                                     *)
(***************************************************************************)
\* Mutant of Hinted: every edge is followed.
HintedAlways(vertex, target) == TRUE

\* graph.rs:167: vertex.region_bits[target.1 as usize]
Hinted(vertex, target) == vertex.region_bits[target[2] + 1]

\* The for loop over node.connections, from connection i on (graph.rs:165-190).
RECURSIVE WayExpand(_, _, _, _, _, _, _, _, _)
WayExpand(graph, target, node, path, cost, i, queue, visited, possibilities) ==
    LET out(status, error) ==
            [status |-> status, error |-> error, queue |-> queue, visited |-> visited,
             possibilities |-> possibilities]
    IN
    IF i > Len(node.connections) THEN out("ok", "none")
    ELSE LET vertex_id == node.connections[i] IN
         IF vertex_id \notin DOMAIN graph.vertices THEN out("err", "VertexNotFound")
         ELSE LET vertex == graph.vertices[vertex_id] IN
              IF target[2] + 1 > Len(vertex.region_bits)
              THEN out("panic", "region_bits index out of bounds")
              ELSE IF ~Hinted(vertex, target)
              THEN WayExpand(graph, target, node, path, cost, i + 1,
                             queue, visited, possibilities)
              ELSE LET next == get_neighbour(vertex, node.id) IN
                   IF next = Panicked THEN out("panic", "Invalid vertex chosen")
                   ELSE IF next \in visited
                   THEN WayExpand(graph, target, node, path, cost, i + 1,
                                  queue, visited, possibilities)
                   ELSE IF next \in DOMAIN graph.nodes
                   THEN LET next_node == graph.nodes[next] IN
                        IF graph.region_idx # next_node.region
                        THEN WayExpand(graph, target, node, path, cost, i + 1,
                                 queue, visited \cup {next},
                                 Append(possibilities,
                                        Continue(path, cost,
                                                 CRegionKnown(next_node.id, next_node.region))))
                        ELSE WayExpand(graph, target, node, path, cost, i + 1,
                                 QueuePush(queue, next_node.id,
                                           Append(path, PathPointFrom(next_node)),
                                           cost + vertex.weight),
                                 visited \cup {next}, possibilities)
                   ELSE \* graph.rs:181: `node` is the node being expanded
                        WayExpand(graph, target, node, path, cost, i + 1,
                                 queue, visited \cup {next},
                                 Append(possibilities,
                                        Continue(path, cost + vertex.weight,
                                                 CRegionUnknown(node.id))))

\* The while loop (graph.rs:157-191).
RECURSIVE WaySearch(_, _, _, _, _)
WaySearch(graph, target, queue, visited, possibilities) ==
    IF queue = {} THEN {SearchOk(possibilities)}
    ELSE UNION {
        LET node == graph.nodes[e.node]
            cost == e.prio
        IN IF graph.region_idx # node.region
           THEN WaySearch(graph, target, queue \ {e}, visited,
                          Append(possibilities,
                                 Continue(e.path, cost, CRegionKnown(node.id, node.region))))
           ELSE LET x == WayExpand(graph, target, node, e.path, cost, 1,
                                   queue \ {e}, visited, possibilities)
                IN IF x.status = "ok"
                   THEN WaySearch(graph, target, x.queue, x.visited, x.possibilities)
                   ELSE IF x.status = "err" THEN {SearchErr(x.error)}
                   ELSE {SearchPanic(x.error)}
        : e \in QueuePopChoices(queue)}

find_way(graph, source, target) ==
    IF source[1] \notin DOMAIN graph.nodes THEN {SearchErr("StartNodeNotFound")}
    ELSE LET start_node == graph.nodes[source[1]]
         IN WaySearch(graph, target,
                      QueuePush({}, start_node.id, <<PathPointFrom(start_node)>>, 0),
                      {}, <<>>)

(***************************************************************************)
(* The federation that is checked: three regions on two group servers.     *)
(*   region 0 = nodes 1 2 3, region 1 = nodes 4 5, region 2 = nodes 6 7    *)
(*   edges 1: 1-2   2: 2-3   3: 3-4   4: 4-5   5: 2-6   6: 6-5   7: 1-7    *)
(*         8: 6-7                                                          *)
(* A region file also stores some nodes of neighbouring regions (stitched  *)
(* boundary nodes); the other remote endpoints are known by id only.       *)
(* group 1 holds region 0, group 2 holds regions 1 and 2.                  *)
(***************************************************************************)
NumRegions == 3

RegionIds == 0..(NumRegions - 1)

ServerIds == {1, 2}

\* group_{id}.json: GroupInfo.regions
GroupRegions(server) == IF server = 1 THEN <<0>> ELSE <<1, 2>>

DataVariants == {"useful", "all", "short", "dupid"}

\* The region_bits column of an edge's row.
EdgeBits(variant, edge) ==
    IF variant = "short" THEN <<TRUE, TRUE>>
    ELSE IF variant = "useful"
    THEN CASE edge = 1 -> <<TRUE, TRUE, TRUE>>
           [] edge = 2 -> <<TRUE, TRUE, FALSE>>
           [] edge = 3 -> <<TRUE, TRUE, FALSE>>
           [] edge = 4 -> <<FALSE, TRUE, TRUE>>
           [] edge = 5 -> <<TRUE, FALSE, TRUE>>
           [] edge = 6 -> <<FALSE, TRUE, TRUE>>
           [] edge = 7 -> <<TRUE, FALSE, TRUE>>
           [] OTHER -> <<FALSE, FALSE, TRUE>>
    ELSE <<TRUE, TRUE, TRUE>>

EdgeRow(variant, edge) ==
    CASE edge = 1 -> RawVertex(1, 1, 2, 1, EdgeBits(variant, 1))
      [] edge = 2 -> RawVertex(2, 2, 3, 1, EdgeBits(variant, 2))
      [] edge = 3 -> RawVertex(3, 3, 4, 2, EdgeBits(variant, 3))
      [] edge = 4 -> RawVertex(4, 4, 5, 1, EdgeBits(variant, 4))
      [] edge = 5 -> RawVertex(5, 2, 6, 3, EdgeBits(variant, 5))
      [] edge = 6 -> RawVertex(6, 6, 5, 1, EdgeBits(variant, 6))
      [] edge = 7 -> RawVertex(7, 1, 7, 2, EdgeBits(variant, 7))
      [] OTHER -> RawVertex(8, 6, 7, 1, EdgeBits(variant, 8))

\* nodes_{region}.csv
NodeRows(region) ==
    CASE region = 0 -> <<RawNode(1, 0), RawNode(2, 0), RawNode(3, 0), RawNode(4, 1), RawNode(6, 2)>>
      [] region = 1 -> <<RawNode(4, 1), RawNode(5, 1), RawNode(3, 0)>>
      [] OTHER -> <<RawNode(6, 2), RawNode(7, 2), RawNode(5, 1)>>

\* vertices_{region}.csv; in the "dupid" files of region 0 a later row
\* repeats edge id 1 with other endpoints.
VertexRows(variant, region) ==
    CASE region = 0 ->
            <<EdgeRow(variant, 1), EdgeRow(variant, 2), EdgeRow(variant, 3),
              EdgeRow(variant, 5), EdgeRow(variant, 7)>>
            \o (IF variant = "dupid"
                THEN <<RawVertex(1, 2, 3, 1, EdgeBits(variant, 1))>> ELSE <<>>)
      [] region = 1 -> <<EdgeRow(variant, 3), EdgeRow(variant, 4), EdgeRow(variant, 6)>>
      [] OTHER -> <<EdgeRow(variant, 5), EdgeRow(variant, 6), EdgeRow(variant, 7),
                    EdgeRow(variant, 8)>>

\* Server::new (lib.rs:242-250): graphs.insert(region_id, graph) for every
\* region of the group.
Graphs(variant, server) ==
    [r \in Range(GroupRegions(server)) |-> LoadGraph(NodeRows(r), VertexRows(variant, r), r)]

(***************************************************************************)
(* The directory (redis_connector.rs): region_server_{region} and          *)
(* node_region_{node} keys.  A key that is absent makes the query fail.    *)
(***************************************************************************)
EmptyDirectory == [region_server |-> <<>>, node_region |-> <<>>]

\* RedisConnector::set_group: SET region_server_{region_id} group_id
set_group(dir, region_id, group_id) ==
    [dir EXCEPT !.region_server =
        (region_id :> group_id) @@ [r \in DOMAIN @ \ {region_id} |-> @[r]]]

\* RedisConnector::set_region: DEL then MSETNX of node_region_{id} for the
\* nodes of the graph whose region is region_id (one caller at a time).
set_region(dir, graph, region_id) ==
    LET ids == {id \in DOMAIN graph.nodes : graph.nodes[id].region = region_id}
        deleted == [n \in DOMAIN dir.node_region \ ids |-> dir.node_region[n]]
    IN [dir EXCEPT !.node_region = [n \in ids |-> region_id] @@ deleted]

\* Server::new (lib.rs:243-250) for one group: set_group and set_region for
\* each region of the group, in order.
RECURSIVE PublishRegions(_, _, _, _)
PublishRegions(dir, variant, server, regions) ==
    IF regions = <<>> THEN dir
    ELSE LET region_id == Head(regions)
             graph == LoadGraph(NodeRows(region_id), VertexRows(variant, region_id), region_id)
         IN PublishRegions(set_region(set_group(dir, region_id, server), graph, region_id),
                           variant, server, Tail(regions))

Published(variant) ==
    PublishRegions(PublishRegions(EmptyDirectory, variant, 1, GroupRegions(1)),
                   variant, 2, GroupRegions(2))

DirVariants == {"published", "nonodes", "stale", "noserver"}

\* The directory contents the servers find:
\*   published - what the two servers' bootstraps wrote;
\*   nonodes   - the node_region cache is empty;
\*   stale     - node 1 is recorded in region 1, node 4 in region 2;
\*   noserver  - no region_server key for region 2.
Directory(dv, variant) ==
    LET pub == Published(variant) IN
    CASE dv = "nonodes" -> [pub EXCEPT !.node_region = <<>>]
      [] dv = "stale" -> [pub EXCEPT !.node_region = (1 :> 1) @@ (4 :> 2) @@ @]
      [] dv = "noserver" ->
            [pub EXCEPT !.region_server = [r \in DOMAIN @ \ {2} |-> @[r]]]
      [] OTHER -> pub

(***************************************************************************)
(* domain.rs: PathRequest and its two derivations.                         *)
(***************************************************************************)
PathRequest(request_id, source, target, last, path, cost, visited_regions) ==
    [request_id |-> request_id, source |-> source, target |-> target, last |-> last,
     path |-> path, cost |-> cost, visited_regions |-> visited_regions]

\* Mutant of update_without_region: the cost of the walk replaces the cost
\* gathered so far.
update_without_region_cost_replaced(self, path, cost) ==
    [self EXCEPT !.path = self.path \o path, !.cost = cost]

\* PathRequest::update_without_region (domain.rs:76-90)
update_without_region(self, path, cost) ==
    [self EXCEPT !.path = self.path \o path, !.cost = self.cost + cost]

\* Mutant of update: the fresh request takes the region pushed as the
\* region of its source.
update_moving_source(self, path, cost, new_region_idx) ==
    [self EXCEPT !.path = self.path \o path,
                 !.cost = self.cost + cost,
                 !.source = NodeInfo(self.source[1], new_region_idx),
                 !.visited_regions = Append(self.visited_regions, new_region_idx)]

\* PathRequest::update (domain.rs:91-108)
update(self, path, cost, new_region_idx) ==
    [self EXCEPT !.path = self.path \o path,
                 !.cost = self.cost + cost,
                 !.visited_regions = Append(self.visited_regions, new_region_idx)]

\* The derivations lib.rs calls also take the new frontier node, which
\* becomes `last` of the fresh value.
with_last(request, last) == [request EXCEPT !.last = last]

(***************************************************************************)
(* Worker::serve_request (lib.rs:162-212).                                 *)
(*                                                                         *)
(* The outcome of serving one request: how the call ended ("ok", "err" or  *)
(* "panic"), the graph that was searched, the reply sent, the forwards     *)
(* sent (server_id, request, with the next_region and the continuation     *)
(* they were built from), the forwards left unsent and the next regions    *)
(* that were skipped as visited.                                           *)
(*                                                                         *)
(* What the code cannot decide is an input of the step:                    *)
(*   - the order in which self.graphs (a HashMap) is iterated: the last    *)
(*     graph that holds request.last becomes start_region;                 *)
(*   - which of several queue items of equal priority a search pops;       *)
(*   - whether a directory query or a transport send fails: `oracle` names *)
(*     the possibility whose query fails (and which query), the queued     *)
(*     send that fails, and whether the reply send fails.                  *)
(***************************************************************************)
Outcome(status, error, start_region, reply, sent, unsent, skipped) ==
    [status |-> status, error |-> error, start_region |-> start_region,
     reply |-> reply, sent |-> sent, unsent |-> unsent, skipped |-> skipped]

Oracles(n) ==
    [dfail : 0..n, dwhich : {"get_region", "get_server_id"}, sfail : 0..n, rfail : BOOLEAN]

\* RedisConnector::get_region / get_server_id: the value, or NoRegion on Err.
get_region(dir, node_id, fails) ==
    IF fails \/ node_id \notin DOMAIN dir.node_region THEN NoRegion
    ELSE dir.node_region[node_id]

get_server_id(dir, region_id, fails) ==
    IF fails \/ region_id \notin DOMAIN dir.region_server THEN NoRegion
    ELSE dir.region_server[region_id]

\* Mutant of SendQueued: only the first queued forward is sent.
SendQueuedFirstOnly(start_region, to_send, skipped, oracle) ==
    IF oracle.sfail \in 1..Len(to_send)
    THEN Outcome("err", "send_request", start_region, <<>>,
                 SubSeq(to_send, 1, oracle.sfail - 1),
                 SubSeq(to_send, oracle.sfail, Len(to_send)), skipped)
    ELSE Outcome("ok", "none", start_region, <<>>, SubSeq(to_send, 1, 1), <<>>, skipped)

\* lib.rs:208-210: the queued sends, in order, up to the first that fails.
SendQueued(start_region, to_send, skipped, oracle) ==
    IF oracle.sfail \in 1..Len(to_send)
    THEN Outcome("err", "send_request", start_region, <<>>,
                 SubSeq(to_send, 1, oracle.sfail - 1),
                 SubSeq(to_send, oracle.sfail, Len(to_send)), skipped)
    ELSE Outcome("ok", "none", start_region, <<>>, to_send, <<>>, skipped)

\* Mutant of HandleResults: a forward is built whether or not next_region
\* is in request.visited_regions.
RECURSIVE HandleResultsNoVisitedCheck(_, _, _, _, _, _, _, _)
HandleResultsNoVisitedCheck(dir, request, start_region, path_results, i, to_send, skipped, oracle) ==
    IF i > Len(path_results) THEN SendQueued(start_region, to_send, skipped, oracle)
    ELSE LET path_result == path_results[i] IN
    IF path_result.kind = "TargetReached"
    THEN LET reply == with_last(update_without_region(request, path_result.path,
                                                      path_result.cost),
                                request.target[1])
         IN IF oracle.rfail
            THEN Outcome("err", "result_reply", start_region, <<>>, <<>>, to_send, skipped)
            ELSE Outcome("ok", "none", start_region, <<reply>>, <<>>, to_send, skipped)
    ELSE LET continuation == path_result.continuation
             next_region ==
                 IF continuation.kind = "CRegionKnown" THEN continuation.region
                 ELSE get_region(dir, continuation.node,
                                 oracle.dfail = i /\ oracle.dwhich = "get_region")
         IN IF next_region = NoRegion
            THEN Outcome("err", "get_region", start_region, <<>>, <<>>, to_send, skipped)
            ELSE IF TRUE
            THEN LET new_request ==
                         with_last(update(request, path_result.path, path_result.cost,
                                          next_region),
                                   get_node_idx(continuation))
                     server_id ==
                         get_server_id(dir, next_region,
                                       oracle.dfail = i /\ oracle.dwhich = "get_server_id")
                 IN IF server_id = NoRegion
                    THEN Outcome("err", "get_server_id", start_region, <<>>, <<>>,
                                 to_send, skipped)
                    ELSE HandleResultsNoVisitedCheck(dir, request, start_region, path_results, i + 1,
                             Append(to_send, [server_id |-> server_id,
                                              request |-> new_request,
                                              next_region |-> next_region,
                                              continuation |-> continuation]),
                             skipped, oracle)
            ELSE HandleResultsNoVisitedCheck(dir, request, start_region, path_results, i + 1,
                               to_send, Append(skipped, next_region), oracle)

\* lib.rs:184-207: the loop over path_results, from result i on.
RECURSIVE HandleResults(_, _, _, _, _, _, _, _)
HandleResults(dir, request, start_region, path_results, i, to_send, skipped, oracle) ==
    IF i > Len(path_results) THEN SendQueued(start_region, to_send, skipped, oracle)
    ELSE LET path_result == path_results[i] IN
    IF path_result.kind = "TargetReached"
    THEN LET reply == with_last(update_without_region(request, path_result.path,
                                                      path_result.cost),
                                request.target[1])
         IN IF oracle.rfail
            THEN Outcome("err", "result_reply", start_region, <<>>, <<>>, to_send, skipped)
            ELSE Outcome("ok", "none", start_region, <<reply>>, <<>>, to_send, skipped)
    ELSE LET continuation == path_result.continuation
             next_region ==
                 IF continuation.kind = "CRegionKnown" THEN continuation.region
                 ELSE get_region(dir, continuation.node,
                                 oracle.dfail = i /\ oracle.dwhich = "get_region")
         IN IF next_region = NoRegion
            THEN Outcome("err", "get_region", start_region, <<>>, <<>>, to_send, skipped)
            ELSE IF ~Contains(request.visited_regions, next_region)
            THEN LET new_request ==
                         with_last(update(request, path_result.path, path_result.cost,
                                          next_region),
                                   get_node_idx(continuation))
                     server_id ==
                         get_server_id(dir, next_region,
                                       oracle.dfail = i /\ oracle.dwhich = "get_server_id")
                 IN IF server_id = NoRegion
                    THEN Outcome("err", "get_server_id", start_region, <<>>, <<>>,
                                 to_send, skipped)
                    ELSE HandleResults(dir, request, start_region, path_results, i + 1,
                             Append(to_send, [server_id |-> server_id,
                                              request |-> new_request,
                                              next_region |-> next_region,
                                              continuation |-> continuation]),
                             skipped, oracle)
            ELSE HandleResults(dir, request, start_region, path_results, i + 1,
                               to_send, Append(skipped, next_region), oracle)

\* Mutant of StartRegions: when no graph holds request.last, every graph of
\* the worker is a start region.
StartRegionsOrAny(graphs, request) ==
    LET holding == {region_idx \in DOMAIN graphs : get_node(graphs[region_idx], request.last)}
    IN IF holding = {} THEN DOMAIN graphs ELSE holding

\* lib.rs:163-168: the graphs that hold request.last; any of them can be the
\* last one the iteration meets.
StartRegions(graphs, request) ==
    {region_idx \in DOMAIN graphs : get_node(graphs[region_idx], request.last)}

\* lib.rs:177-182: the search chosen by the target's region.
Searches(graph, request, start_region) ==
    IF request.target[2] = start_region
    THEN find_way_local(graph, NodeInfo(request.last, start_region), request.target)
    ELSE find_way(graph, NodeInfo(request.last, start_region), request.target)

serve_request(graphs, dir, request) ==
    IF StartRegions(graphs, request) = {}
    THEN {Outcome("err", "Not served region", NoRegion, <<>>, <<>>, <<>>, <<>>)}
    ELSE UNION {
        UNION {
            IF search.status = "panic"
            THEN {Outcome("panic", search.error, start_region, <<>>, <<>>, <<>>, <<>>)}
            ELSE IF search.status = "err"
            THEN {Outcome("err", search.error, start_region, <<>>, <<>>, <<>>, <<>>)}
            ELSE {HandleResults(dir, request, start_region, search.results, 1,
                                <<>>, <<>>, oracle)
                  : oracle \in Oracles(Len(search.results))}
            : search \in Searches(graphs[start_region], request, start_region)}
        : start_region \in StartRegions(graphs, request)}


(***************************************************************************)
(* SpecPool: the dispatcher and the worker pool of one group server        *)
(* (lib.rs:214-312).  The server is group 1 of the federation above, with  *)
(* the "useful" region files and the published directory; what a worker's  *)
(* serve_request does with a request is computed from the request.         *)
(***************************************************************************)
WorkerCount == 1

MaxRequests == 2

Workers == 0..(WorkerCount - 1)

NoWorker == 0 - 1

NoRequest == <<>>

\* What the listener can hand to the dispatcher: a request completed
\* locally, one that is forwarded, and one whose target region (3) is
\* past the end of every region_bits vector.
PoolRequests ==
    {PathRequest(7, NodeInfo(1, 0), target, 1, <<>>, 0, <<>>)
        : target \in {<<3, 0>>, <<5, 1>>, <<5, 3>>}}

\* The ConnectionError values get_new_request returns that are not
\* ProtocolError (node_connector.rs:8-14, 121-127, 231-235).
OtherListenerErrors == {"DeserializationError", "NoRequest", "RedisDeserializationError"}

(***************************************************************************)
(* SpecRoute: one client request travelling through the federation.        *)
(*                                                                         *)
(* A request in flight is kept with its history: the server whose listener *)
(* it waits at, the number of forwards behind it (hops), the regions in    *)
(* which it and its ancestors were searched, the region it was forwarded   *)
(* for (dest) and the region where the client's request was first searched *)
(* (origin).  A serve_request call is one step: the search has no          *)
(* suspension point and the sends of one call are ordered.                 *)
(***************************************************************************)
ClientTargets == {<<3, 0>>, <<5, 1>>, <<7, 2>>, <<5, 3>>}

\* What the client submits to group 1: the frontier is the source node.
ClientRequests ==
    {PathRequest(7, NodeInfo(1, 0), target, 1, <<>>, 0, visited)
        : target \in ClientTargets, visited \in {<<>>, <<0>>}}

Message(to, req, fid, hops, searched, dest, origin) ==
    [to |-> to, req |-> req, fid |-> fid, hops |-> hops, searched |-> searched,
     dest |-> dest, origin |-> origin]

NoServe ==
    [server |-> NoRegion, req |-> <<>>, status |-> "none", error |-> "none",
     start_region |-> NoRegion, skipped |-> <<>>, sent |-> <<>>, unsent |-> <<>>,
     reply |-> <<>>, hops |-> 0]

(***************************************************************************)
(* The transport and directory plumbing at rest.                           *)
(***************************************************************************)
\* connection_count of RedisConnector::new: the connections opened and the
\* permits of the semaphore (redis_connector.rs:154-165).
redis_connection_count == 2

Connections == 1..redis_connection_count

\* The worker tasks that run directory operations: three, more than there
\* are connections, so that a task has to wait.
ConnTasks == {1, 2, 3}

RECURSIVE SeqOfFirst(_)
SeqOfFirst(n) == IF n = 0 THEN <<>> ELSE Append(SeqOfFirst(n - 1), n)

\* RedisConnector::new has filled the pool; no operation is running.
ConnIdle ==
    /\ permits = redis_connection_count
    /\ cwait = <<>>
    /\ pool = SeqOfFirst(redis_connection_count)
    /\ cpc = [t \in ConnTasks |-> "idle"]
    /\ cop = [t \in ConnTasks |-> "none"]
    /\ cheld = [t \in ConnTasks |-> 0]
    /\ cpermits = [t \in ConnTasks |-> 0]

\* ServerInfo (redis_connector.rs:24-29).
ServerInfo(id, addr, regions) == [id |-> id, addr |-> addr, regions |-> regions]

\* servers.get(&id) is None.
NoServerInfo == [id |-> 0, addr |-> "", regions |-> <<>>]

\* The server ids the address book is asked about and updated for.
BookServers == {1, 2}

\* Tasks that query the address book.
Readers == {1, 2}

\* The reader has not copied anything yet.
NotRead == 0 - 1

\* hgetall("server_info") at NetworkManager::new (redis_connector.rs:125-127):
\* server 1 is registered, server 2 is not yet.
FirstBook == [id \in BookServers |-> IF id = 1 THEN ServerInfo(1, "tcp://a", <<0>>) ELSE NoServerInfo]

\* NetworkManager::new has returned; nothing has been published or asked.
BookIdle ==
    /\ book = FirstBook
    /\ bwriter = FALSE
    /\ breaders = {}
    /\ spc = "next"
    /\ supd = NoServerInfo
    /\ sfail = "none"
    /\ bapplied = <<>>
    /\ rpc = [r \in Readers |-> "idle"]
    /\ rop = [r \in Readers |-> 0]
    /\ rcopy = [r \in Readers |-> FirstBook]
    /\ rseen = [r \in Readers |-> NotRead]

\* Two worker tasks of one server that call send_request on clones of one
\* ZMQConnectionsManager, so that two calls can meet on one socket.
Senders == {1, 2}

\* The keys of node_connections (node_connector.rs:169-174): the servers the
\* address book held when the manager was built.
ZmqSockets == {id \in BookServers : FirstBook[id] # NoServerInfo}

\* No reply has been received.
NoReply == <<>>

\* No send_request is running.
ZmqIdle ==
    /\ zpc = [s \in Senders |-> "idle"]
    /\ zreq = [s \in Senders |-> NoRequest]
    /\ ztarget = [s \in Senders |-> NoWorker]
    /\ zlock = [t \in ZmqSockets |-> 0]
    /\ zwire = [s \in Senders |-> <<>>]
    /\ zbad = [s \in Senders |-> 0]
    /\ zlast = [s \in Senders |-> NoReply]
    /\ zerr = [s \in Senders |-> "none"]
    /\ lgot = [s \in Senders |-> 0]

\* The server processes that start up: one of group 1 and two of group 2.
Publishers == {1, 2, 3}

\* config.id of a publisher: the group whose regions it loads (lib.rs:240).
GroupOf(p) == IF p = 1 THEN 1 ELSE 2

\* No server has started; the directory of SpecPublish is empty.
PublishIdle ==
    /\ pdir = [region_server |-> <<>>, node_region |-> <<>>]
    /\ ppc = [p \in Publishers |-> "set_group"]
    /\ pidx = [p \in Publishers |-> 1]

IoIdle == ZmqIdle /\ ConnIdle /\ BookIdle /\ PublishIdle

\* No search is observed.
NoSearch == <<>>

SearchIdle == sin = NoSearch /\ sout = NoSearch

\* The worker pool before Server::new has done anything.
PoolIdle ==
    /\ built = 0
    /\ free = <<>>
    /\ dpc = "new"
    /\ dheld = NoWorker
    /\ lres = "none"
    /\ task = [w \in Workers |-> <<>>]
    /\ wpc = [w \in Workers |-> "unborn"]
    /\ wcur = [w \in Workers |-> NoRequest]
    /\ wres = [w \in Workers |-> "none"]
    /\ accepted = 0
    /\ received = [w \in Workers |-> 0]
    /\ emitted = [w \in Workers |-> 0]
    /\ placed = [w \in Workers |-> <<>>]
    /\ taken = [w \in Workers |-> <<>>]

InitRoute ==
    /\ PoolIdle
    /\ SearchIdle
    /\ IoIdle
    /\ data \in DataVariants
    /\ dirv \in DirVariants
    /\ \E req \in ClientRequests :
          inflight = SetToBag({Message(1, req, 0, 0, {}, NoRegion, NoRegion)})
    /\ replies = <<>>
    /\ fwdlog = <<>>
    /\ lastserve = NoServe

\* Mutant of ForwardEvents: the forwards a call had queued when it returned
\* are sent as well.
ForwardEventsOfQueued(m, out) ==
    [k \in 1..Len(out.sent \o out.unsent) |->
        [req |-> (out.sent \o out.unsent)[k].request,
         to |-> (out.sent \o out.unsent)[k].server_id,
         dest |-> (out.sent \o out.unsent)[k].next_region, parent |-> m.req, pfid |-> m.fid,
         searched_in |-> out.start_region,
         searched |-> m.searched \cup {out.start_region},
         hops |-> m.hops + 1,
         origin |-> IF m.origin = NoRegion THEN out.start_region ELSE m.origin,
         served_in |-> NoRegion]]

\* The forwards and the reply of one serve_request call, with their
\* history: the request they derive from (parent, and pfid: its place in
\* fwdlog, 0 for the client's), the region searched, the regions searched so
\* far in the lineage, and, once the forward is served, the region it was
\* searched in.
ForwardEvents(m, out) ==
    [k \in 1..Len(out.sent) |->
        [req |-> out.sent[k].request, to |-> out.sent[k].server_id,
         dest |-> out.sent[k].next_region, parent |-> m.req, pfid |-> m.fid,
         searched_in |-> out.start_region,
         searched |-> m.searched \cup {out.start_region},
         hops |-> m.hops + 1,
         origin |-> IF m.origin = NoRegion THEN out.start_region ELSE m.origin,
         served_in |-> NoRegion]]

\* Mutant of ReplyEvents: a reply is dropped when the submitter already has
\* one.
ReplyEventsOncePerRequest(m, out) ==
    IF replies # <<>> THEN <<>>
    ELSE [k \in 1..Len(out.reply) |->
            [req |-> out.reply[k], parent |-> m.req, pfid |-> m.fid,
             searched_in |-> out.start_region,
             searched |-> m.searched \cup {out.start_region}, hops |-> m.hops,
             origin |-> IF m.origin = NoRegion THEN out.start_region ELSE m.origin]]

ReplyEvents(m, out) ==
    [k \in 1..Len(out.reply) |->
        [req |-> out.reply[k], parent |-> m.req, pfid |-> m.fid,
         searched_in |-> out.start_region,
         searched |-> m.searched \cup {out.start_region}, hops |-> m.hops,
         origin |-> IF m.origin = NoRegion THEN out.start_region ELSE m.origin]]

\* A forward that was sent waits at the listener of the server it names;
\* events[k] is entry base + k of fwdlog.
RECURSIVE Delivered(_, _, _)
Delivered(events, k, base) ==
    IF k > Len(events) THEN EmptyBag
    ELSE LET e == events[k]
             rest == Delivered(events, k + 1, base)
         IN IF e.to \in ServerIds
            THEN rest (+) SetToBag({Message(e.to, e.req, base + k, e.hops, e.searched,
                                            e.dest, e.origin)})
            ELSE rest

\* The region a forward was searched in is noted in its fwdlog entry.
NoteServed(log, m, out) ==
    IF m.fid = 0 THEN log ELSE [log EXCEPT ![m.fid].served_in = out.start_region]

\* One worker of server m.to serves m and the call ends as `out`.
ServeStep(m, out) ==
    /\ inflight' = (inflight (-) SetToBag({m}))
                       (+) Delivered(ForwardEvents(m, out), 1, Len(fwdlog))
    /\ replies' = replies \o ReplyEvents(m, out)
    /\ fwdlog' = NoteServed(fwdlog, m, out) \o ForwardEvents(m, out)
    /\ lastserve' = [server |-> m.to, req |-> m.req, status |-> out.status,
                     error |-> out.error, start_region |-> out.start_region,
                     skipped |-> out.skipped, sent |-> out.sent, unsent |-> out.unsent,
                     reply |-> out.reply, hops |-> m.hops]
    /\ UNCHANGED <<data, dirv>>
    /\ UNCHANGED <<poolVars, searchVars, ioVars>>

\* serve_request returns Ok after replying to the submitter (lib.rs:186-191).
ServeReply(m, out) == out.status = "ok" /\ out.reply # <<>> /\ ServeStep(m, out)

\* serve_request returns Ok after the queued sends (lib.rs:208-211).
ServeForward(m, out) == out.status = "ok" /\ out.reply = <<>> /\ ServeStep(m, out)

\* serve_request returns Err: the `?` of lib.rs:173-209.
ServeFail(m, out) == out.status = "err" /\ ServeStep(m, out)

\* The worker's thread panics inside the search (graph.rs:64, graph.rs:167).
ServePanic(m, out) == out.status = "panic" /\ ServeStep(m, out)

NextRoute ==
    \E m \in BagToSet(inflight) :
        \E out \in serve_request(Graphs(data, m.to), Directory(dirv, data), m.req) :
            \/ ServeReply(m, out)
            \/ ServeForward(m, out)
            \/ ServeFail(m, out)
            \/ ServePanic(m, out)

SpecRoute == InitRoute /\ [][NextRoute]_vars

(***************************************************************************)
(* Actions of SpecPool.                                                    *)
(***************************************************************************)
InitPool ==
    /\ PoolIdle
    /\ SearchIdle
    /\ IoIdle
    /\ data = "useful"
    /\ dirv = "published"
    /\ inflight = EmptyBag
    /\ replies = <<>>
    /\ fwdlog = <<>>
    /\ lastserve = NoServe

\* Worker::new (lib.rs:143-160) called by Server::new for worker `built`,
\* then tokio::task::spawn of worker.work() (lib.rs:257-271).
ServerNewWorker ==
    /\ dpc = "new"
    /\ built < WorkerCount
    /\ free' = Append(free, built)
    /\ wpc' = [wpc EXCEPT ![built] = "start"]
    /\ built' = built + 1
    /\ UNCHANGED <<dpc, dheld, lres, task, wcur, wres, accepted, received, emitted, placed, taken>>
    /\ UNCHANGED <<routeVars, searchVars, ioVars>>

\* Server::new returns and main calls Server::serve (main.rs:21-22).
ServerServe ==
    /\ dpc = "new"
    /\ built = WorkerCount
    /\ dpc' = "recv_free"
    /\ UNCHANGED <<built, free, dheld, lres, task, wpc, wcur, wres, accepted, received, emitted, placed, taken>>
    /\ UNCHANGED <<routeVars, searchVars, ioVars>>

\* Worker::work, before the loop (lib.rs:215).
WorkerStart(w) ==
    /\ dpc # "crashed"
    /\ wpc[w] = "start"
    /\ free' = Append(free, w)
    /\ wpc' = [wpc EXCEPT ![w] = "recv"]
    /\ UNCHANGED <<built, dpc, dheld, lres, task, wcur, wres, accepted, received, emitted, placed, taken>>
    /\ UNCHANGED <<routeVars, searchVars, ioVars>>

\* Worker::work: task_receiver.recv() yields a request (lib.rs:217-219).
WorkerRecv(w) ==
    /\ dpc # "crashed"
    /\ wpc[w] = "recv"
    /\ task[w] # <<>>
    /\ wcur' = [wcur EXCEPT ![w] = Head(task[w])]
    /\ task' = [task EXCEPT ![w] = Tail(@)]
    /\ wpc' = [wpc EXCEPT ![w] = "serving"]
    /\ received' = [received EXCEPT ![w] = @ + 1]
    /\ taken' = [taken EXCEPT ![w] = Append(@, Head(task[w]))]
    /\ UNCHANGED <<built, free, dpc, dheld, lres, wres, accepted, emitted, placed>>
    /\ UNCHANGED <<routeVars, searchVars, ioVars>>

\* serve_request returns Ok or Err to the loop (lib.rs:219-221).
WorkerServeReturns(w) ==
    /\ dpc # "crashed"
    /\ wpc[w] = "serving"
    /\ \E out \in serve_request(Graphs(data, 1), Directory(dirv, data), wcur[w]) :
          /\ out.status # "panic"
          /\ wres' = [wres EXCEPT ![w] = out.status]
    /\ wpc' = [wpc EXCEPT ![w] = "done"]
    /\ UNCHANGED <<built, free, dpc, dheld, lres, task, wcur, accepted, received, emitted, placed, taken>>
    /\ UNCHANGED <<routeVars, searchVars, ioVars>>

\* serve_request panics: the worker's task ends and its task_receiver is
\* dropped.
WorkerServePanics(w) ==
    /\ dpc # "crashed"
    /\ wpc[w] = "serving"
    /\ \E out \in serve_request(Graphs(data, 1), Directory(dirv, data), wcur[w]) :
          out.status = "panic"
    /\ wres' = [wres EXCEPT ![w] = "panic"]
    /\ wpc' = [wpc EXCEPT ![w] = "dead"]
    /\ UNCHANGED <<built, free, dpc, dheld, lres, task, wcur, accepted, received, emitted, placed, taken>>
    /\ UNCHANGED <<routeVars, searchVars, ioVars>>

\* Mutant of WorkerFree: the send is skipped when serve_request failed.
WorkerFreeUnlessFailed(w) ==
    /\ dpc # "crashed"
    /\ wpc[w] = "done"
    /\ free' = IF wres[w] = "err" THEN free ELSE Append(free, w)
    /\ emitted' = IF wres[w] = "err" THEN emitted ELSE [emitted EXCEPT ![w] = @ + 1]
    /\ wcur' = [wcur EXCEPT ![w] = NoRequest]
    /\ wpc' = [wpc EXCEPT ![w] = "recv"]
    /\ UNCHANGED <<built, dpc, dheld, lres, task, wres, accepted, received, placed, taken>>
    /\ UNCHANGED <<routeVars, searchVars, ioVars>>

\* Worker::work: the send at the end of the loop body (lib.rs:227).
WorkerFree(w) ==
    /\ dpc # "crashed"
    /\ wpc[w] = "done"
    /\ free' = Append(free, w)
    /\ emitted' = [emitted EXCEPT ![w] = @ + 1]
    /\ wcur' = [wcur EXCEPT ![w] = NoRequest]
    /\ wpc' = [wpc EXCEPT ![w] = "recv"]
    /\ UNCHANGED <<built, dpc, dheld, lres, task, wres, accepted, received, placed, taken>>
    /\ UNCHANGED <<routeVars, searchVars, ioVars>>

\* Server::serve: free_receiver.recv() (lib.rs:284-291).
DispatcherRecvFree ==
    /\ dpc = "recv_free"
    /\ free # <<>>
    /\ dheld' = Head(free)
    /\ free' = Tail(free)
    /\ dpc' = "listen"
    /\ UNCHANGED <<built, lres, task, wpc, wcur, wres, accepted, received, emitted, placed, taken>>
    /\ UNCHANGED <<routeVars, searchVars, ioVars>>

\* Server::serve: the listener yields a request and it is sent on the
\* chosen worker's channel (lib.rs:293-295).
DispatcherDispatch(request) ==
    /\ dpc = "listen"
    /\ accepted < MaxRequests
    /\ wpc[dheld] # "dead"
    /\ task' = [task EXCEPT ![dheld] = Append(@, request)]
    /\ placed' = [placed EXCEPT ![dheld] = Append(@, request)]
    /\ accepted' = accepted + 1
    /\ lres' = "Ok"
    /\ dheld' = NoWorker
    /\ dpc' = "recv_free"
    /\ UNCHANGED <<built, free, wpc, wcur, wres, received, emitted, taken>>
    /\ UNCHANGED <<routeVars, searchVars, ioVars>>

\* Server::serve: the send fails because the worker's receiver is gone;
\* the dispatcher panics (lib.rs:295-297).
DispatcherSendFails(request) ==
    /\ dpc = "listen"
    /\ accepted < MaxRequests
    /\ wpc[dheld] = "dead"
    /\ accepted' = accepted + 1
    /\ lres' = "Ok"
    /\ dpc' = "crashed"
    /\ UNCHANGED <<built, free, dheld, task, wpc, wcur, wres, received, emitted, placed, taken>>
    /\ UNCHANGED <<routeVars, searchVars, ioVars>>

\* Mutant of DispatcherListenError: the worker id is not put back.
DispatcherListenErrorKeepsId(err) ==
    /\ dpc = "listen"
    /\ lres' = err
    /\ dheld' = NoWorker
    /\ dpc' = "recv_free"
    /\ UNCHANGED <<built, free, task, wpc, wcur, wres, accepted, received, emitted, placed, taken>>
    /\ UNCHANGED <<routeVars, searchVars, ioVars>>

\* Server::serve: the listener fails with an error that is not
\* ProtocolError (lib.rs:304-307).
DispatcherListenError(err) ==
    /\ dpc = "listen"
    /\ free' = Append(free, dheld)
    /\ lres' = err
    /\ dheld' = NoWorker
    /\ dpc' = "recv_free"
    /\ UNCHANGED <<built, task, wpc, wcur, wres, accepted, received, emitted, placed, taken>>
    /\ UNCHANGED <<routeVars, searchVars, ioVars>>

\* Mutant of DispatcherProtocolError: the error is handled like the other
\* listener errors and the loop continues.
DispatcherProtocolErrorContinues ==
    /\ dpc = "listen"
    /\ free' = Append(free, dheld)
    /\ lres' = "ProtocolError"
    /\ dheld' = NoWorker
    /\ dpc' = "recv_free"
    /\ UNCHANGED <<built, task, wpc, wcur, wres, accepted, received, emitted, placed, taken>>
    /\ UNCHANGED <<routeVars, searchVars, ioVars>>

\* Server::serve: the listener fails with ProtocolError; panic (lib.rs:301-303).
DispatcherProtocolError ==
    /\ dpc = "listen"
    /\ lres' = "ProtocolError"
    /\ dpc' = "crashed"
    /\ UNCHANGED <<built, free, dheld, task, wpc, wcur, wres, accepted, received, emitted, placed, taken>>
    /\ UNCHANGED <<routeVars, searchVars, ioVars>>

NextPool ==
    \/ ServerNewWorker
    \/ ServerServe
    \/ \E w \in Workers : WorkerStart(w)
    \/ \E w \in Workers : WorkerRecv(w)
    \/ \E w \in Workers : WorkerServeReturns(w)
    \/ \E w \in Workers : WorkerServePanics(w)
    \/ \E w \in Workers : WorkerFree(w)
    \/ DispatcherRecvFree
    \/ \E request \in PoolRequests : DispatcherDispatch(request)
    \/ \E request \in PoolRequests : DispatcherSendFails(request)
    \/ \E err \in OtherListenerErrors : DispatcherListenError(err)
    \/ DispatcherProtocolError

SpecPool == InitPool /\ [][NextPool]_vars

\* The executor runs every spawned worker task that can take a step, and a
\* send on the unbounded free channel never waits.
SpecPoolFair == SpecPool /\ \A w \in Workers : WF_vars(WorkerFree(w))

Spec == SpecPool

(***************************************************************************)
(* Properties of the worker pool.                                          *)
(***************************************************************************)
\* Requests taken from the listener that no worker has finished serving.
InFlight ==
    SumSeq([i \in 1..WorkerCount |-> Len(task[i - 1])])
        + Cardinality({w \in Workers : wpc[w] = "serving"})

\* Idle credits of worker w: copies of w in the free channel or in the
\* dispatcher's hand.
Credits(w) == Count(free, w) + (IF dheld = w THEN 1 ELSE 0)

\* Requests assigned to w whose turn of the loop has not ended.
Assigned(w) == Len(task[w]) + (IF wpc[w] \in {"serving", "done"} THEN 1 ELSE 0)

TotalCredits == Len(free) + (IF dheld = NoWorker THEN 0 ELSE 1)

\* C1 - Backpressure: in every reachable state the number of in-flight
\* requests of the server is at most worker_count.
C1_Backpressure == InFlight <= WorkerCount

\* C2 - Idle-credit conservation: for every constructed worker, idle credits
\* plus assigned unfinished requests is exactly 1, so a worker's channel
\* never holds a request while the worker serves another.
C2_CreditConservation ==
    \A w \in Workers :
        wpc[w] \notin {"unborn", "dead"} =>
            /\ Credits(w) + Assigned(w) = 1
            /\ (wpc[w] = "serving" => task[w] = <<>>)

\* C3 - Worker liveness: the loop's free-channel send executes once after
\* every request the worker receives, and a worker whose serve_request
\* returned an error emits its id and waits for the next request (as long
\* as the process lives).
C3_WorkerLiveness ==
    /\ [](\A w \in Workers :
            /\ wpc[w] = "recv" => emitted[w] = received[w]
            /\ wpc[w] \in {"serving", "done"} => emitted[w] + 1 = received[w])
    /\ \A w \in Workers :
          (wpc[w] = "done" /\ wres[w] = "err")
              ~> ((wpc[w] = "recv" /\ emitted[w] = received[w]) \/ dpc = "crashed")

\* A worker that failed a request has emitted its id and waits again.
C3_Witness ==
    \E w \in Workers :
        /\ wpc[w] = "recv"
        /\ wres[w] = "err"
        /\ received[w] >= 1
        /\ emitted[w] = received[w]
        /\ Contains(free, w)

\* C4 - Dispatcher liveness: a receive that fails with an error other than
\* ProtocolError puts the taken worker id back on the free channel and the
\* dispatcher loops; the number of idle credits is unchanged.
C4_DispatcherLiveness ==
    [][(dpc = "listen" /\ dpc' # "listen" /\ lres' \in OtherListenerErrors) =>
          /\ free' = Append(free, dheld)
          /\ dpc' = "recv_free"
          /\ TotalCredits' = TotalCredits
          /\ \A w \in Workers : Credits(w)' = Credits(w)]_vars

\* The dispatcher is back at the free channel after a failed receive and
\* the id it had taken is the channel's last element.
C4_Witness ==
    /\ lres \in OtherListenerErrors
    /\ dpc = "recv_free"
    /\ free # <<>>
    /\ dheld = NoWorker
    /\ accepted >= 1

\* C5 - Per-request error containment: no content of a request takes down
\* the worker that serves it; the dispatcher never finds a worker gone.
C5_ErrorContainment ==
    /\ \A w \in Workers : wpc[w] # "dead"
    /\ (dpc = "crashed" => lres = "ProtocolError")

(***************************************************************************)
(* Properties of the forwarding protocol.                                  *)
(***************************************************************************)
\* The fwdlog entries a forward derives from: its parent, the parent's
\* parent, and so on.
RECURSIVE Ancestors(_)
Ancestors(fid) ==
    IF fid = 0 \/ fwdlog[fid].pfid = 0 THEN {}
    ELSE {fwdlog[fid].pfid} \cup Ancestors(fwdlog[fid].pfid)

Forwards == 1..Len(fwdlog)

\* C6 - Forwarding terminates: every lineage of forwards has at most as
\* many hops as there are regions, because a forward is only built for a
\* next region that is not in the request's visited_regions and that region
\* is then added.
C6_ForwardingTerminates ==
    /\ \A m \in BagToSet(inflight) : m.hops <= NumRegions
    /\ \A j \in Forwards :
          /\ fwdlog[j].hops <= NumRegions
          /\ ~Contains(fwdlog[j].parent.visited_regions, fwdlog[j].dest)
          /\ fwdlog[j].req.visited_regions =
                 Append(fwdlog[j].parent.visited_regions, fwdlog[j].dest)

\* A lineage of three forwards has ended and nothing is left in flight.
C6_Witness ==
    /\ inflight = EmptyBag
    /\ \E j \in Forwards : fwdlog[j].hops = 3 /\ fwdlog[j].served_in # NoRegion
    /\ lastserve.skipped # <<>>

\* C7 - No region revisit: visited_regions of every forwarded or replied
\* request has no duplicates, and once a region is in the visited_regions of
\* a forward, no forward that derives from it is sent to, or searched in,
\* that region.
C7_NoRegionRevisit ==
    /\ \A j \in Forwards : NoDuplicates(fwdlog[j].req.visited_regions)
    /\ \A k \in 1..Len(replies) : NoDuplicates(replies[k].req.visited_regions)
    /\ \A j \in Forwards : \A i \in Ancestors(j) :
          /\ ~Contains(fwdlog[i].req.visited_regions, fwdlog[j].dest)
          /\ ~Contains(fwdlog[i].req.visited_regions, fwdlog[j].served_in)

\* C8 - Cycle prevention (S3): a request first searched in region 0 and
\* forwarded to region 1 is not forwarded back to region 0 by the server
\* that searches region 1.
C8_CyclePrevention ==
    \A j \in Forwards :
        (/\ fwdlog[j].origin = 0
         /\ fwdlog[j].pfid # 0
         /\ fwdlog[fwdlog[j].pfid].pfid = 0
         /\ fwdlog[fwdlog[j].pfid].dest = 1
         /\ fwdlog[j].searched_in = 1) => fwdlog[j].dest # 0

\* C9 - visited_regions is the set of regions searched: a replied request's
\* visited_regions is exactly the regions in which it and its ancestors were
\* searched; a forwarded request's holds all of them and, besides them,
\* nothing but the region it is sent to.
C9_VisitedIsSearched ==
    /\ \A k \in 1..Len(replies) :
          Range(replies[k].req.visited_regions) = replies[k].searched
    /\ \A j \in Forwards :
          /\ fwdlog[j].searched \subseteq Range(fwdlog[j].req.visited_regions)
          /\ Range(fwdlog[j].req.visited_regions)
                 \subseteq fwdlog[j].searched \cup {fwdlog[j].dest}

\* The union of all regions' edge sets.
AllEdges ==
    UNION {{Graphs(data, sv)[r].vertices[v] : v \in DOMAIN Graphs(data, sv)[r].vertices}
           : <<sv, r>> \in {<<1, 0>>, <<2, 1>>, <<2, 2>>}}

\* The weight of the edge joining two consecutive points (0 when none does).
StepWeight(a, b) ==
    LET joining == {e \in AllEdges : {e.a, e.b} = {a, b}}
    IN IF joining = {} THEN 0 ELSE (CHOOSE e \in joining : TRUE).weight

PathWeight(path) ==
    SumSeq([i \in 1..(Len(path) - 1) |-> StepWeight(path[i].id, path[i + 1].id)])

\* C10 - Cost equals path weight: the cost of every replied request is the
\* sum of the weights of the edges joining consecutive nodes of its path.
C10_CostIsPathWeight ==
    \A k \in 1..Len(replies) : replies[k].req.cost = PathWeight(replies[k].req.path)

\* Some edge of the union of all regions' edge sets joins nodes a and b.
Joined(a, b) == \E e \in AllEdges : {e.a, e.b} = {a, b} /\ a # b

\* path is a walk of the federated graph that starts at the source node.
ContiguousWalk(req) ==
    /\ req.path # <<>> => req.path[1].id = req.source[1]
    /\ \A i \in 1..(Len(req.path) - 1) : Joined(req.path[i].id, req.path[i + 1].id)

\* C11 - Path continuity: the path of every forwarded or replied request
\* is a contiguous walk starting at source (consecutive points are joined by
\* an edge of the union of the regions' edge sets), and the path of a
\* forwarded request ends at an endpoint of an edge leading to last.
C11_PathContinuity ==
    /\ \A k \in 1..Len(replies) : ContiguousWalk(replies[k].req)
    /\ \A j \in Forwards :
          /\ ContiguousWalk(fwdlog[j].req)
          /\ fwdlog[j].req.path # <<>>
          /\ Joined(fwdlog[j].req.path[Len(fwdlog[j].req.path)].id, fwdlog[j].req.last)

(***************************************************************************)
(* SpecSearch: one call of Graph::find_way_local or Graph::find_way on a   *)
(* region graph, as Worker::serve_request makes it (lib.rs:177-182).       *)
(*                                                                         *)
(* The graphs are those of region 0 with local nodes 1 2 3 4, the stitched *)
(* node 5 of region 1 and, known by id only, nodes 6 and 7:                *)
(*   edges 1: 1-2   2: 1-3   3: 2-3   4: 2-5   5: 3-6   6: 2-4   7: 3-4    *)
(*         8: 3-7                                                          *)
(* Two families of vertex files are searched by SpecSearch:                *)
(*   - edges 1..5 absent or of a weight in 0..MaxWeight, all region bits   *)
(*     set;                                                                *)
(*   - edges 1..5 and 8 absent or of weight 1, the bit of region 1 set or  *)
(*     clear on every edge.                                                *)
(* The search starts at node 1, or at node 8, which no file stores.  No    *)
(* sum of these weights leaves the range of i64.                           *)
(*                                                                         *)
(* SpecSearchU64 is find_way_local on a third family: edges 1 2 6 7 (two   *)
(* ways from node 1 to node 4) with weights from both halves of the u64    *)
(* range, all region bits set.                                             *)
(***************************************************************************)
MaxWeight == 3

\* No such edge in the region's vertex file.
Absent == 0 - 1

SearchEdgeEnds ==
    <<<<1, 2>>, <<1, 3>>, <<2, 3>>, <<2, 5>>, <<3, 6>>, <<2, 4>>, <<3, 4>>, <<3, 7>>>>

SearchNodeRows ==
    <<RawNode(1, 0), RawNode(2, 0), RawNode(3, 0), RawNode(4, 0), RawNode(5, 1)>>

\* The rows of the vertex file for the weights w (w[e] = Absent: no row) and
\* the region bits <<TRUE, h[e]>>.
RECURSIVE SearchVertexRows(_, _, _)
SearchVertexRows(w, h, e) ==
    IF e > Len(SearchEdgeEnds) THEN <<>>
    ELSE (IF w[e] = Absent THEN <<>>
          ELSE <<RawVertex(e, SearchEdgeEnds[e][1], SearchEdgeEnds[e][2], w[e],
                           <<TRUE, h[e]>>)>>)
         \o SearchVertexRows(w, h, e + 1)

\* Weights on the edges `on`, drawn from `from`; the other edges are absent.
SearchWeights(on, from) ==
    {[e \in 1..Len(SearchEdgeEnds) |-> IF e \in on THEN w[e] ELSE Absent]
        : w \in [on -> from]}

AllHinted == [e \in 1..Len(SearchEdgeEnds) |-> TRUE]

SearchGraphs ==
    {LoadGraph(SearchNodeRows, SearchVertexRows(w, AllHinted, 1), 0)
        : w \in SearchWeights(1..5, {Absent} \cup (0..MaxWeight))}
    \cup
    {LoadGraph(SearchNodeRows, SearchVertexRows(w, h, 1), 0)
        : w \in SearchWeights((1..5) \cup {8}, {Absent, 1}),
          h \in [1..Len(SearchEdgeEnds) -> BOOLEAN]}

\* Sources: node 1 of region 0, and node 8, which is in no graph.
SearchSources == {NodeInfo(1, 0), NodeInfo(8, 0)}

\* Targets in the graph's own region (nodes 2, 3, 4) and in region 1.
SearchTargets == {<<2, 0>>, <<3, 0>>, <<4, 0>>, <<9, 1>>}

\* The routing state while only a search is observed.
RouteIdle ==
    /\ data = "useful"
    /\ dirv = "published"
    /\ inflight = EmptyBag
    /\ replies = <<>>
    /\ fwdlog = <<>>
    /\ lastserve = NoServe

InitSearch ==
    /\ PoolIdle
    /\ RouteIdle
    /\ IoIdle
    /\ sin \in [graph : SearchGraphs, source : SearchSources, target : SearchTargets]
    /\ sout = NoSearch

\* lib.rs:178-179: the target is in the region searched.
SearchLocal ==
    /\ sout = NoSearch
    /\ sin.target[2] = sin.graph.region_idx
    /\ sout' \in find_way_local(sin.graph, sin.source, sin.target)
    /\ UNCHANGED <<poolVars, routeVars, sin, ioVars>>

\* lib.rs:180-181: the target is in another region.
SearchWay ==
    /\ sout = NoSearch
    /\ sin.target[2] # sin.graph.region_idx
    /\ sout' \in find_way(sin.graph, sin.source, sin.target)
    /\ UNCHANGED <<poolVars, routeVars, sin, ioVars>>

NextSearch == SearchLocal \/ SearchWay

SpecSearch == InitSearch /\ [][NextSearch]_vars

\* Weights around the middle of the u64 range: 2^63 - 1, 2^63, 2^63 + 1.
WideWeights == {1, I64Max(CostBits), I64Max(CostBits) + 1, I64Max(CostBits) + 2}

WideGraphs ==
    {LoadGraph(SearchNodeRows, SearchVertexRows(w, AllHinted, 1), 0)
        : w \in SearchWeights({1, 2, 6, 7}, WideWeights)}

InitSearchU64 ==
    /\ PoolIdle
    /\ RouteIdle
    /\ IoIdle
    /\ sin \in [graph : WideGraphs, source : SearchSources,
                 target : {t \in SearchTargets : t[2] = 0}]
    /\ sout = NoSearch

SpecSearchU64 == InitSearchU64 /\ [][SearchLocal]_vars

(***************************************************************************)
(* Properties of the searches.                                             *)
(***************************************************************************)
\* More than any walk without a repeated edge can weigh.
Far(graph) ==
    LET weights == {graph.vertices[v].weight : v \in DOMAIN graph.vertices}
        heaviest == IF weights = {} THEN 0
                    ELSE CHOOSE x \in weights : \A y \in weights : y <= x
    IN Cardinality(DOMAIN graph.vertices) * heaviest + 1

\* One round of relaxation of the distances d over the edges between stored nodes.
Relax(graph, d) ==
    [n \in DOMAIN d |->
        LET via == {d[m] + graph.vertices[v].weight :
                        <<m, v>> \in {<<m, v>> \in (DOMAIN d) \X (DOMAIN graph.vertices) :
                                        {graph.vertices[v].a, graph.vertices[v].b} = {m, n}
                                            /\ m # n}}
            all == via \cup {d[n]}
        IN CHOOSE x \in all : \A y \in all : x <= y]

RECURSIVE RelaxTimes(_, _, _)
RelaxTimes(graph, d, k) == IF k = 0 THEN d ELSE RelaxTimes(graph, Relax(graph, d), k - 1)

\* The shortest-path distance from source to every stored node (Far: none).
Distances(graph, source) ==
    RelaxTimes(graph, [n \in DOMAIN graph.nodes |-> IF n = source THEN 0 ELSE Far(graph)],
               Cardinality(DOMAIN graph.nodes))

\* C12 - Shortest intra-region: when the target is reachable in the region's
\* graph, find_way_local returns TargetReached with the shortest-path
\* distance from source to target as cost.
C12_ShortestIntraRegion ==
    (sout # NoSearch /\ sin.target[2] = sin.graph.region_idx
        /\ Distances(sin.graph, sin.source[1])[sin.target[1]] < Far(sin.graph))
    => /\ sout.status = "ok"
       /\ sout.results[1].kind = "TargetReached"
       /\ sout.results[1].cost = Distances(sin.graph, sin.source[1])[sin.target[1]]

(***************************************************************************)
(* Properties of one serve_request call (read off lastserve).              *)
(***************************************************************************)
\* The graph the last call searched.
ServedGraph == Graphs(data, lastserve.server)[lastserve.start_region]

\* The last call searched the region of the target and the target can be
\* reached from request.last in that region's graph.
LocalCase ==
    /\ lastserve.start_region # NoRegion
    /\ lastserve.req.target[2] = lastserve.start_region
    /\ lastserve.req.target[1] \in DOMAIN ServedGraph.nodes
    /\ Distances(ServedGraph, lastserve.req.last)[lastserve.req.target[1]] < Far(ServedGraph)

\* seq is prefix followed by a walk of the graph from node `from` to node `to`.
ExtendsByWalk(graph, prefix, seq, from, to) ==
    /\ Len(seq) > Len(prefix)
    /\ SubSeq(seq, 1, Len(prefix)) = prefix
    /\ seq[Len(prefix) + 1].id = from
    /\ seq[Len(seq)].id = to
    /\ \A i \in (Len(prefix) + 1)..(Len(seq) - 1) :
          \E v \in DOMAIN graph.vertices :
              {graph.vertices[v].a, graph.vertices[v].b} = {seq[i].id, seq[i + 1].id}

\* C13 - Local completion (S1): when the region searched is the target's
\* region and the target is reachable there, the worker sends one reply and
\* no forward; the reply keeps request_id and visited_regions, its last is
\* the target node, its path is request.path followed by the local walk from
\* last to target and its cost is request.cost plus the weight of that walk.
C13_LocalCompletion ==
    LocalCase =>
        /\ lastserve.sent = <<>> /\ lastserve.unsent = <<>> /\ lastserve.skipped = <<>>
        /\ lastserve.status = "ok" \/ lastserve.error = "result_reply"
        /\ lastserve.status = "ok" =>
              /\ Len(lastserve.reply) = 1
              /\ LET reply == lastserve.reply[1]
                     request == lastserve.req
                 IN /\ reply.request_id = request.request_id
                    /\ reply.last = request.target[1]
                    /\ reply.visited_regions = request.visited_regions
                    /\ ExtendsByWalk(ServedGraph, request.path, reply.path,
                                     request.last, request.target[1])
                    /\ reply.cost = request.cost
                          + PathWeight(SubSeq(reply.path, Len(request.path) + 1,
                                              Len(reply.path)))

\* A request forwarded once, with a path and a cost behind it, was completed
\* in the target's region.
C13_Witness ==
    /\ LocalCase
    /\ lastserve.status = "ok"
    /\ lastserve.hops >= 1
    /\ lastserve.req.cost > 0
    /\ Len(lastserve.reply[1].path) >= Len(lastserve.req.path) + 2

\* The group server that holds a region.
OwnerOf(region) == CHOOSE sv \in ServerIds : Contains(GroupRegions(sv), region)

\* The graph in which the request of fwdlog entry f was searched.
SearchedGraph(f) == Graphs(data, OwnerOf(f.searched_in))[f.searched_in]

\* Forward f leads over an edge to a node that the searched graph stores
\* with another region.
KnownForeignExit(f) ==
    /\ f.req.last \in DOMAIN SearchedGraph(f).nodes
    /\ SearchedGraph(f).nodes[f.req.last].region # f.searched_in
    /\ Len(f.req.path) > Len(f.parent.path)
    /\ Joined(f.req.path[Len(f.req.path)].id, f.req.last)

\* C14 - Boundary forward to a locally known foreign node (S2): the forward
\* has last = the foreign node n, cost = request.cost + the cost of the
\* local walk to the boundary edge's local endpoint + the edge's weight, and
\* visited_regions = request.visited_regions with n's region added.
C14_BoundaryForwardKnown ==
    \A j \in Forwards :
        LET f == fwdlog[j]
            walk == SubSeq(f.req.path, Len(f.parent.path) + 1, Len(f.req.path))
        IN KnownForeignExit(f) =>
              /\ f.req.cost = f.parent.cost + PathWeight(walk)
                                 + StepWeight(f.req.path[Len(f.req.path)].id, f.req.last)
              /\ f.req.visited_regions =
                     Append(f.parent.visited_regions,
                            SearchedGraph(f).nodes[f.req.last].region)

\* C15 - Unknown next region (S5): a possibility that leaves the graph over
\* an edge to a node the graph does not store carries that remote node's id;
\* the worker asks the directory for the region of that node, forwards to
\* the server the directory names for the region, and the forward's last is
\* the remote node.
C15_UnknownNextRegion ==
    \A k \in 1..Len(lastserve.sent) :
        LET fwd == lastserve.sent[k]
            dir == Directory(dirv, data)
        IN fwd.continuation.kind = "CRegionUnknown" =>
              /\ fwd.continuation.node \notin DOMAIN ServedGraph.nodes
              /\ Joined(fwd.request.path[Len(fwd.request.path)].id, fwd.continuation.node)
              /\ fwd.next_region = dir.node_region[fwd.continuation.node]
              /\ fwd.server_id = dir.region_server[fwd.next_region]
              /\ fwd.request.last = fwd.continuation.node

\* C16 - find_way returns its possibilities in ascending order of cost: a
\* possibility that precedes another in the returned sequence costs no more.
C16_AscendingCost ==
    (sout # NoSearch /\ sin.target[2] # sin.graph.region_idx /\ sout.status = "ok") =>
        \A i, j \in 1..Len(sout.results) :
            i < j => sout.results[i].cost <= sout.results[j].cost

\* The last call searched a region other than the target's with find_way,
\* and every directory lookup and every send succeeded.
WayCaseAllSucceeded ==
    /\ lastserve.start_region # NoRegion
    /\ lastserve.req.target[2] # lastserve.start_region
    /\ lastserve.status = "ok"

\* The region a possibility leads to.
NextRegionOf(continuation) ==
    IF continuation.kind = "CRegionKnown" THEN continuation.region
    ELSE get_region(Directory(dirv, data), continuation.node, FALSE)

\* The possibilities whose next region is not in request.visited_regions,
\* in their order.
RECURSIVE NotVisited(_, _)
NotVisited(results, request) ==
    IF results = <<>> THEN <<>>
    ELSE (IF Contains(request.visited_regions, NextRegionOf(Head(results).continuation))
          THEN <<>> ELSE <<Head(results)>>)
         \o NotVisited(Tail(results), request)

\* C17 - Multiple possibilities (S4): when find_way returns several Continue
\* possibilities and all lookups and sends succeed, the worker sends one
\* forward per possibility whose next region is not in
\* request.visited_regions, in the order of the possibilities (two exits to
\* the same region give two forwards); the other possibilities are skipped.
C17_MultiplePossibilities ==
    WayCaseAllSucceeded =>
        \E search \in find_way(ServedGraph,
                               NodeInfo(lastserve.req.last, lastserve.start_region),
                               lastserve.req.target) :
            /\ search.status = "ok"
            /\ LET kept == NotVisited(search.results, lastserve.req)
               IN /\ lastserve.reply = <<>>
                  /\ lastserve.unsent = <<>>
                  /\ Len(lastserve.sent) = Len(kept)
                  /\ Len(lastserve.skipped) = Len(search.results) - Len(kept)
                  /\ \A k \in 1..Len(kept) :
                        /\ lastserve.sent[k].continuation = kept[k].continuation
                        /\ lastserve.sent[k].next_region = NextRegionOf(kept[k].continuation)
                        /\ lastserve.sent[k].request.path = lastserve.req.path \o kept[k].path
                        /\ lastserve.sent[k].request.cost = lastserve.req.cost + kept[k].cost

\* Three forwards went out of one call, two of them to the same region.
C17_Witness ==
    /\ WayCaseAllSucceeded
    /\ Len(lastserve.sent) >= 3
    /\ \E i, k \in 1..Len(lastserve.sent) :
          i < k /\ lastserve.sent[i].next_region = lastserve.sent[k].next_region

\* Two forwards went out of one call and a visited region was skipped.
C17_WitnessSkip ==
    /\ WayCaseAllSucceeded
    /\ Len(lastserve.sent) >= 2
    /\ lastserve.skipped # <<>>

\* C18 - Duplicate completions are possible: no server deduplicates on
\* request_id, so every serve_request call that replies adds its reply to
\* what the submitter receives, whatever was replied before for the same
\* request_id; sibling forwards completed independently give the submitter
\* more than one reply (C18_Witness).
C18_DuplicateCompletions ==
    [][(lastserve'.status = "ok" /\ lastserve'.reply # <<>>) =>
           /\ Len(replies') = Len(replies) + 1
           /\ replies'[Len(replies')].req = lastserve'.reply[1]
           /\ SubSeq(replies', 1, Len(replies)) = replies]_vars

\* The submitter holds two replies with one request_id whose lineages part
\* at two sibling forwards (two forwards sent by the same serve_request
\* call), each completed on its own.
C18_Witness ==
    \E i, k \in 1..Len(replies) :
        /\ i < k
        /\ replies[i].req.request_id = replies[k].req.request_id
        /\ replies[i].pfid # 0 /\ replies[k].pfid # 0
        /\ \E a \in {replies[i].pfid} \cup Ancestors(replies[i].pfid) :
           \E b \in {replies[k].pfid} \cup Ancestors(replies[k].pfid) :
               a # b /\ fwdlog[a].pfid = fwdlog[b].pfid

\* derived carries the request_id, source and target of request.
SameIdentity(derived, request) ==
    /\ derived.request_id = request.request_id
    /\ derived.source = request.source
    /\ derived.target = request.target

\* C19 - request_id, source and target are stable under forwarding: every
\* request a worker forwards or replies while serving request r carries r's
\* request_id, source and target, and r itself is not modified (every
\* forward and reply of the call derives from r as it was received).
C19_StableIdentity ==
    /\ \A j \in Forwards :
          /\ SameIdentity(fwdlog[j].req, fwdlog[j].parent)
          /\ fwdlog[j].pfid # 0 => fwdlog[j].parent = fwdlog[fwdlog[j].pfid].req
    /\ \A k \in 1..Len(replies) :
          /\ SameIdentity(replies[k].req, replies[k].parent)
          /\ replies[k].pfid # 0 => replies[k].parent = fwdlog[replies[k].pfid].req
    /\ \A k \in 1..Len(lastserve.sent) :
          SameIdentity(lastserve.sent[k].request, lastserve.req)
    /\ \A k \in 1..Len(lastserve.unsent) :
          SameIdentity(lastserve.unsent[k].request, lastserve.req)

\* A request forwarded twice was forwarded again with a sibling, and a reply
\* of a forwarded request reached the submitter.
C19_Witness ==
    /\ \E j \in Forwards : fwdlog[j].hops >= 3
    /\ \E k \in 1..Len(replies) : replies[k].hops >= 1
    /\ \E i, j \in Forwards : i # j /\ fwdlog[i].pfid = fwdlog[j].pfid /\ fwdlog[i].pfid # 0

(***************************************************************************)
(* Malformed messages at the listener.                                     *)
(***************************************************************************)
\* The listener results that stand for a message that could not be
\* deserialized: ConnectionError::DeserializationError of the ZMQ listener
\* and ConnectionError::RedisDeserializationError of the Redis listener.
DeserializationErrors == {"DeserializationError", "RedisDeserializationError"}

\* C20 - Malformed message: when the listener yields a deserialization
\* error, the message reaches no worker's channel and the dispatcher goes
\* back to the free channel alive; and when the listener's next result after
\* a deserialization error is a well-formed request, that request is put on
\* the channel of the worker whose id the dispatcher holds.
C20_MalformedMessage ==
    [][/\ (dpc = "listen" /\ dpc' # "listen" /\ lres' \in DeserializationErrors) =>
             /\ task' = task
             /\ accepted' = accepted
             /\ dpc' = "recv_free"
             /\ free' # <<>>
       /\ (dpc = "listen" /\ dpc' # "listen" /\ lres \in DeserializationErrors /\ lres' = "Ok") =>
             /\ dpc' = "recv_free"
             /\ accepted' = accepted + 1
             /\ Len(task'[dheld]) = Len(task[dheld]) + 1
             /\ \A w \in Workers \ {dheld} : task'[w] = task[w]]_vars

\* C21 - NoRequest is fatal for the dispatcher: the step in which the
\* listener reports NoRequest ends the dispatcher, so the listener is not
\* called again.
C21_NoRequestFatal ==
    [][(dpc = "listen" /\ dpc' # "listen" /\ lres' = "NoRequest") => dpc' = "crashed"]_vars

\* C22 - Dispatcher crash conditions: the step in which the listener returns
\* ProtocolError, and the step in which an accepted request is sent on the
\* channel of a worker whose receiver is gone, both end the dispatcher; once
\* it has ended no request is taken from the listener, none is put on a
\* worker's channel, and it does not come back.
C22_DispatcherCrash ==
    [][/\ (dpc = "listen" /\ dpc' # "listen" /\ lres' = "ProtocolError") => dpc' = "crashed"
       /\ (dpc = "listen" /\ dpc' # "listen" /\ lres' = "Ok" /\ wpc[dheld] = "dead") =>
             /\ dpc' = "crashed"
             /\ task' = task
       /\ dpc = "crashed" =>
             /\ dpc' = "crashed"
             /\ accepted' = accepted
             /\ task' = task
             /\ lres' = lres]_vars

\* The dispatcher has ended on a ProtocolError while a worker id was on the
\* free channel and the listener had requests left to deliver.
C22_Witness ==
    /\ dpc = "crashed"
    /\ lres = "ProtocolError"
    /\ accepted < MaxRequests
    /\ free # <<>>

\* The dispatcher has ended on a failed send to a worker that is gone.
C22_WitnessSendFails ==
    /\ dpc = "crashed"
    /\ lres = "Ok"
    /\ wpc[dheld] = "dead"

(***************************************************************************)
(* ZMQConnectionsManager::send_request (node_connector.rs:183-201): the    *)
(* request/reply exchange with a peer server over a REQ socket.            *)
(***************************************************************************)
\* The most sends one call makes before the peer answers "OK" or the
\* socket fails.
MaxAttempts == 3

notZmqVars == <<poolVars, routeVars, searchVars, connVars, bookVars, pubVars>>

\* The target_ids send_request is called with: the servers the address book
\* is updated for and one id that no server has.
ZmqTargets == BookServers \cup {3}

ZmqRequests ==
    {PathRequest(id, NodeInfo(1, 0), <<5, 1>>, 1, <<[id |-> 1, region_id |-> 0, cord_x |-> 0, cord_y |-> 0]>>, 1, <<0>>)
        : id \in {7, 8}}

\* What the peer answers: the text "OK", another text, or bytes that are not
\* UTF-8 (String::from_utf8 fails, node_connector.rs:190).
ZmqReplies ==
    {[utf8 |-> TRUE, text |-> "OK"], [utf8 |-> TRUE, text |-> "ok"],
     [utf8 |-> TRUE, text |-> "BUSY"], [utf8 |-> FALSE, text |-> ""]}

\* serde_json::to_vec(&request): the fields of PathRequest in the order
\* domain.rs:50-57 declares them, each with its name.
Serialize(request) ==
    <<<<"request_id", request.request_id>>, <<"source", request.source>>,
      <<"target", request.target>>, <<"path", request.path>>,
      <<"cost", request.cost>>, <<"visited_regions", request.visited_regions>>>>

\* node_connector.rs:190-191: the reply is legible and reads "OK".
IsOk(reply) == reply.utf8 /\ reply.text = "OK"

InitZmq ==
    /\ PoolIdle
    /\ RouteIdle
    /\ SearchIdle
    /\ IoIdle

\* A worker calls send_request(target_id, request) (lib.rs:209).
ZmqCall(s, target_id, request) ==
    /\ zpc[s] = "idle"
    /\ zpc' = [zpc EXCEPT ![s] = "loop"]
    /\ ztarget' = [ztarget EXCEPT ![s] = target_id]
    /\ zreq' = [zreq EXCEPT ![s] = request]
    /\ UNCHANGED <<zlock, zwire, zbad, zlast, zerr, lgot>>
    /\ UNCHANGED notZmqVars

\* node_connector.rs:186: node_connections holds no socket for target_id.
ZmqNoTarget(s) ==
    /\ zpc[s] = "loop"
    /\ ztarget[s] \notin ZmqSockets
    /\ zpc' = [zpc EXCEPT ![s] = "err"]
    /\ zerr' = [zerr EXCEPT ![s] = "TargetDoesNotExist"]
    /\ UNCHANGED <<zreq, ztarget, zlock, zwire, zbad, zlast, lgot>>
    /\ UNCHANGED notZmqVars

\* Mutant of ZmqLock: the socket is used without waiting for its mutex.
ZmqLockNotAwaited(s) ==
    /\ zpc[s] = "loop"
    /\ ztarget[s] \in ZmqSockets
    /\ zlock' = [zlock EXCEPT ![ztarget[s]] = s]
    /\ zpc' = [zpc EXCEPT ![s] = "send"]
    /\ UNCHANGED <<zreq, ztarget, zwire, zbad, zlast, zerr, lgot>>
    /\ UNCHANGED notZmqVars

\* node_connector.rs:186: the socket of target_id is found and its mutex
\* taken.
ZmqLock(s) ==
    /\ zpc[s] = "loop"
    /\ ztarget[s] \in ZmqSockets
    /\ zlock[ztarget[s]] = 0
    /\ zlock' = [zlock EXCEPT ![ztarget[s]] = s]
    /\ zpc' = [zpc EXCEPT ![s] = "send"]
    /\ UNCHANGED <<zreq, ztarget, zwire, zbad, zlast, zerr, lgot>>
    /\ UNCHANGED notZmqVars

\* node_connector.rs:187-188: the request is serialized and sent.
ZmqSend(s) ==
    /\ zpc[s] = "send"
    /\ zwire' = [zwire EXCEPT ![s] = Append(@, <<ztarget[s], Serialize(zreq[s])>>)]
    /\ zpc' = [zpc EXCEPT ![s] = "recv"]
    /\ UNCHANGED <<zreq, ztarget, zlock, zbad, zlast, zerr, lgot>>
    /\ UNCHANGED notZmqVars

\* node_connector.rs:188: the send fails; `?` returns the error and the
\* guard is dropped.
ZmqSendError(s) ==
    /\ zpc[s] = "send"
    /\ zpc' = [zpc EXCEPT ![s] = "err"]
    /\ zerr' = [zerr EXCEPT ![s] = "send"]
    /\ zlock' = [zlock EXCEPT ![ztarget[s]] = 0]
    /\ UNCHANGED <<zreq, ztarget, zwire, zbad, zlast, lgot>>
    /\ UNCHANGED notZmqVars

\* Mutant of ZmqRecv: every legible reply counts as "OK".
ZmqRecvLegibleIsOk(s, reply) ==
    /\ zpc[s] = "recv"
    /\ IsOk(reply) \/ Len(zwire[s]) < MaxAttempts
    /\ zlast' = [zlast EXCEPT ![s] = reply]
    /\ zlock' = [zlock EXCEPT ![ztarget[s]] = 0]
    /\ IF reply.utf8
       THEN /\ zpc' = [zpc EXCEPT ![s] = "ok"]
            /\ zbad' = zbad
       ELSE /\ zpc' = [zpc EXCEPT ![s] = "loop"]
            /\ zbad' = [zbad EXCEPT ![s] = @ + 1]
    /\ UNCHANGED <<zreq, ztarget, zwire, zerr, lgot>>
    /\ UNCHANGED notZmqVars

\* node_connector.rs:189-199: a reply arrives; "OK" returns Ok(()), any
\* other reply is logged and the loop starts over.  The guard is dropped at
\* the end of the loop body.
ZmqRecv(s, reply) ==
    /\ zpc[s] = "recv"
    /\ IsOk(reply) \/ Len(zwire[s]) < MaxAttempts
    /\ zlast' = [zlast EXCEPT ![s] = reply]
    /\ zlock' = [zlock EXCEPT ![ztarget[s]] = 0]
    /\ IF IsOk(reply)
       THEN /\ zpc' = [zpc EXCEPT ![s] = "ok"]
            /\ zbad' = zbad
       ELSE /\ zpc' = [zpc EXCEPT ![s] = "loop"]
            /\ zbad' = [zbad EXCEPT ![s] = @ + 1]
    /\ UNCHANGED <<zreq, ztarget, zwire, zerr, lgot>>
    /\ UNCHANGED notZmqVars

\* node_connector.rs:189: the receive fails; `?` returns the error.
ZmqRecvError(s) ==
    /\ zpc[s] = "recv"
    /\ zpc' = [zpc EXCEPT ![s] = "err"]
    /\ zerr' = [zerr EXCEPT ![s] = "recv"]
    /\ zlock' = [zlock EXCEPT ![ztarget[s]] = 0]
    /\ UNCHANGED <<zreq, ztarget, zwire, zbad, zlast, lgot>>
    /\ UNCHANGED notZmqVars

NextZmq ==
    \/ \E s \in Senders, target_id \in ZmqTargets, request \in ZmqRequests :
          ZmqCall(s, target_id, request)
    \/ \E s \in Senders : ZmqNoTarget(s)
    \/ \E s \in Senders : ZmqLock(s)
    \/ \E s \in Senders : ZmqSend(s)
    \/ \E s \in Senders : ZmqSendError(s)
    \/ \E s \in Senders, reply \in ZmqReplies : ZmqRecv(s, reply)
    \/ \E s \in Senders : ZmqRecvError(s)

SpecZmq == InitZmq /\ [][NextZmq]_vars

\* C23 - ZMQ retry (S6): every send of a call carries the same serialized
\* request on the socket of the call's target; there is one send for the
\* first attempt and one more after each reply that is not "OK"; the call
\* returns success exactly when the reply just received is "OK", and then
\* sends nothing more; and a call that has sent ends in an error only on a
\* failed send or receive.
C23_ZmqRetry ==
    \A s \in Senders :
        /\ \A k \in 1..Len(zwire[s]) : zwire[s][k] = <<ztarget[s], Serialize(zreq[s])>>
        /\ Len(zwire[s]) =
              zbad[s] + (IF zpc[s] \in {"recv", "ok"} \/ (zpc[s] = "err" /\ zerr[s] = "recv")
                         THEN 1 ELSE 0)
        /\ zpc[s] = "ok" <=> (zlast[s] # NoReply /\ IsOk(zlast[s]))
        /\ (zpc[s] = "err" /\ zwire[s] # <<>>) => zerr[s] \in {"send", "recv"}
        /\ (zpc[s] = "err" /\ zwire[s] = <<>>) => zerr[s] \in {"send", "TargetDoesNotExist"}

\* A call has returned success on its third send, after a legible reply
\* other than "OK" or an illegible one, while another call was retrying on
\* the same socket.
C23_Witness ==
    \E s, t \in Senders :
        /\ s # t
        /\ zpc[s] = "ok"
        /\ zbad[s] = 2
        /\ Len(zwire[s]) = 3
        /\ ztarget[t] = ztarget[s]
        /\ zbad[t] >= 1
        /\ zreq[t] # zreq[s]

(***************************************************************************)
(* RedisConnector: claim_connection, release_connection and the directory  *)
(* operations built on them (redis_connector.rs:168-241,                   *)
(* node_connector.rs:257-289).                                             *)
(***************************************************************************)
notConnVars == <<poolVars, routeVars, searchVars, zmqVars, bookVars, pubVars>>

\* The operations a worker runs while it serves a request, each of which
\* claims a connection, runs a command on it and releases it (lib.rs:195,
\* 199, 209).  set_group, set_region, register_server, get_servers_info and
\* RedisReplier::send have the same shape.
DirectoryOps == {"get_region", "get_server_id", "send_request"}

InitConn ==
    /\ PoolIdle
    /\ RouteIdle
    /\ SearchIdle
    /\ IoIdle

\* A task calls a directory operation, which calls claim_connection and
\* queues at the semaphore (redis_connector.rs:169).
ConnBegin(t, op) ==
    /\ cpc[t] = "idle"
    /\ cpc' = [cpc EXCEPT ![t] = "wait"]
    /\ cop' = [cop EXCEPT ![t] = op]
    /\ cwait' = Append(cwait, t)
    /\ UNCHANGED <<permits, pool, cheld, cpermits>>
    /\ UNCHANGED notConnVars

\* conn_count.acquire() returns a permit to the first waiter
\* (redis_connector.rs:169).
ConnAcquire(t) ==
    /\ cpc[t] = "wait"
    /\ cwait # <<>>
    /\ Head(cwait) = t
    /\ permits > 0
    /\ permits' = permits - 1
    /\ cwait' = Tail(cwait)
    /\ cpermits' = [cpermits EXCEPT ![t] = @ + 1]
    /\ cpc' = [cpc EXCEPT ![t] = "permit"]
    /\ UNCHANGED <<pool, cop, cheld>>
    /\ UNCHANGED notConnVars

\* The pool is locked and its top connection popped; pop().unwrap() panics
\* on an empty pool and the permit is dropped (redis_connector.rs:170-174).
ConnPop(t) ==
    /\ cpc[t] = "permit"
    /\ IF pool = <<>>
       THEN /\ cpc' = [cpc EXCEPT ![t] = "panicked"]
            /\ permits' = permits + 1
            /\ cpermits' = [cpermits EXCEPT ![t] = @ - 1]
            /\ UNCHANGED <<pool, cheld>>
       ELSE /\ cheld' = [cheld EXCEPT ![t] = pool[Len(pool)]]
            /\ pool' = SubSeq(pool, 1, Len(pool) - 1)
            /\ cpc' = [cpc EXCEPT ![t] = "query"]
            /\ UNCHANGED <<permits, cpermits>>
    /\ UNCHANGED <<cwait, cop>>
    /\ UNCHANGED notConnVars

\* Mutant of ConnQuery: the permit is given back as soon as the command has
\* ended, before the connection is returned.
ConnQueryDropsPermit(t) ==
    /\ cpc[t] = "query"
    /\ cpc' = [cpc EXCEPT ![t] = "release"]
    /\ permits' = permits + 1
    /\ cpermits' = [cpermits EXCEPT ![t] = @ - 1]
    /\ UNCHANGED <<cwait, pool, cop, cheld>>
    /\ UNCHANGED notConnVars

\* The operation's commands run on the connection and end, with a value or
\* an error that is kept in a local (e.g. redis_connector.rs:184, 209, 235-236).
ConnQuery(t) ==
    /\ cpc[t] = "query"
    /\ cpc' = [cpc EXCEPT ![t] = "release"]
    /\ UNCHANGED <<permits, cwait, pool, cop, cheld, cpermits>>
    /\ UNCHANGED notConnVars

\* release_connection: the pool is locked and the connection pushed
\* (redis_connector.rs:177-180).
ConnPush(t) ==
    /\ cpc[t] = "release"
    /\ pool' = Append(pool, cheld[t])
    /\ cheld' = [cheld EXCEPT ![t] = 0]
    /\ cpc' = [cpc EXCEPT ![t] = "return"]
    /\ UNCHANGED <<permits, cwait, cop, cpermits>>
    /\ UNCHANGED notConnVars

\* Mutant of ConnReturn: the operation goes on to claim a second connection
\* while it keeps the permit of the first.
ConnReturnKeepsPermit(t) ==
    /\ cpc[t] = "return"
    /\ cpc' = [cpc EXCEPT ![t] = "wait"]
    /\ cwait' = Append(cwait, t)
    /\ UNCHANGED <<permits, pool, cop, cheld, cpermits>>
    /\ UNCHANGED notConnVars

\* The operation returns and _count_guard is dropped, which gives the
\* permit back (e.g. redis_connector.rs:186-187).
ConnReturn(t) ==
    /\ cpc[t] = "return"
    /\ permits' = permits + 1
    /\ cpermits' = [cpermits EXCEPT ![t] = @ - 1]
    /\ cpc' = [cpc EXCEPT ![t] = "idle"]
    /\ cop' = [cop EXCEPT ![t] = "none"]
    /\ UNCHANGED <<cwait, pool, cheld>>
    /\ UNCHANGED notConnVars

NextConn ==
    \/ \E t \in ConnTasks, op \in DirectoryOps : ConnBegin(t, op)
    \/ \E t \in ConnTasks : ConnAcquire(t)
    \/ \E t \in ConnTasks : ConnPop(t)
    \/ \E t \in ConnTasks : ConnQuery(t)
    \/ \E t \in ConnTasks : ConnPush(t)
    \/ \E t \in ConnTasks : ConnReturn(t)

SpecConn == InitConn /\ [][NextConn]_vars

\* A task that has asked for a permit is polled until it gets one, and a
\* task inside an operation runs to the operation's end: the semaphore
\* serves waiters in arrival order and the commands terminate.
SpecConnFair ==
    /\ SpecConn
    /\ \A t \in ConnTasks :
          /\ WF_vars(ConnAcquire(t))
          /\ WF_vars(ConnPop(t))
          /\ WF_vars(ConnQuery(t))
          /\ WF_vars(ConnPush(t))
          /\ WF_vars(ConnReturn(t))

CheckedOut == {t \in ConnTasks : cheld[t] # 0}

\* C24 - Connection pool safety: a task holds a connection only while it
\* holds a permit; no pop finds the pool empty; at most
\* redis_connection_count connections are checked out; and the checked-out
\* and the pooled connections are together all the connections, each once.
C24_PoolSafety ==
    /\ \A t \in ConnTasks :
          /\ cpc[t] # "panicked"
          /\ cheld[t] # 0 => cpermits[t] = 1
          /\ cpc[t] \in {"query", "release"} <=> cheld[t] # 0
    /\ permits <= Len(pool)
    /\ Cardinality(CheckedOut) <= redis_connection_count
    /\ Cardinality(CheckedOut) + Len(pool) = redis_connection_count
    /\ Range(pool) \cup {cheld[t] : t \in CheckedOut} = Connections

\* Every connection is checked out, one task has pushed its connection back
\* but not yet returned, and another task waits for a permit.
C24_Witness ==
    /\ \E t \in ConnTasks : cpc[t] = "wait"
    /\ \E t \in ConnTasks : cpc[t] = "return"
    /\ Cardinality(CheckedOut) = redis_connection_count - 1
    /\ permits = 0

\* C25 - Pool deadlock freedom: no task holds more than one permit, and a
\* task that waits in claim_connection gets its permit, although there are
\* more tasks than connections.
C25_PoolDeadlockFree ==
    /\ [](\A t \in ConnTasks : cpermits[t] <= 1)
    /\ \A t \in ConnTasks : (cpc[t] = "wait") ~> (cpc[t] = "permit")

\* A task waits behind another waiter while every permit is taken and the
\* tasks outnumber the connections.
C25_Witness ==
    /\ Cardinality(ConnTasks) > redis_connection_count
    /\ permits = 0
    /\ Len(cwait) >= 1
    /\ \A t \in ConnTasks : cpc[t] # "idle"
    /\ \E t \in ConnTasks : cop[t] = "get_server_id" /\ cpc[t] = "wait"

(***************************************************************************)
(* NetworkInfo and the update task of NetworkManager::new                  *)
(* (redis_connector.rs:96-143).                                            *)
(***************************************************************************)
\* The most updates the update task applies.
MaxUpdates == 2

notBookVars == <<poolVars, routeVars, searchVars, zmqVars, connVars, pubVars>>

\* What register_server of a starting server publishes on "server_updates"
\* (redis_connector.rs:199).
ServerUpdates ==
    {ServerInfo(1, "tcp://b", <<0, 1>>), ServerInfo(2, "tcp://c", <<2>>),
     ServerInfo(2, "tcp://d", <<1, 2>>)}

\* Why pubsub_stream.next().await.unwrap().get_payload().unwrap() panics.
SubscriberFailures == {"stream ended", "payload not a ServerInfo"}

\* BTreeMap::insert of each update in turn.
RECURSIVE BookAfter(_)
BookAfter(updates) ==
    IF updates = <<>> THEN FirstBook
    ELSE LET last == updates[Len(updates)]
         IN  [BookAfter(SubSeq(updates, 1, Len(updates) - 1)) EXCEPT ![last.id] = last]

\* What a query hands back from a map: the whole map for get_servers, one
\* entry (or NoServerInfo for None) for get_server.
QueryResult(servers, query) == IF query = 0 THEN servers ELSE servers[query]

InitBook ==
    /\ PoolIdle
    /\ RouteIdle
    /\ SearchIdle
    /\ IoIdle

\* redis_connector.rs:132: a message arrives and decodes as ServerInfo.
BookNext(server_update) ==
    /\ spc = "next"
    /\ Len(bapplied) < MaxUpdates
    /\ supd' = server_update
    /\ spc' = "lock"
    /\ UNCHANGED <<book, bwriter, breaders, sfail, bapplied, rpc, rop, rcopy, rseen>>
    /\ UNCHANGED notBookVars

\* redis_connector.rs:132: the stream has ended or the payload does not
\* decode; unwrap panics and the spawned task ends.
BookNextFails(failure) ==
    /\ spc = "next"
    /\ spc' = "dead"
    /\ sfail' = failure
    /\ UNCHANGED <<book, bwriter, breaders, supd, bapplied, rpc, rop, rcopy, rseen>>
    /\ UNCHANGED notBookVars

\* redis_connector.rs:133: servers_for_task.write().await.
BookWriteLock ==
    /\ spc = "lock"
    /\ ~bwriter
    /\ breaders = {}
    /\ bwriter' = TRUE
    /\ spc' = "insert"
    /\ UNCHANGED <<book, breaders, supd, sfail, bapplied, rpc, rop, rcopy, rseen>>
    /\ UNCHANGED notBookVars

\* redis_connector.rs:134-135: the insert, and the guard dropped at the end
\* of the loop body.
BookInsert ==
    /\ spc = "insert"
    /\ book' = [book EXCEPT ![supd.id] = supd]
    /\ bapplied' = Append(bapplied, supd)
    /\ bwriter' = FALSE
    /\ supd' = NoServerInfo
    /\ spc' = "next"
    /\ UNCHANGED <<breaders, sfail, rpc, rop, rcopy, rseen>>
    /\ UNCHANGED notBookVars

\* get_servers() or get_server(id) is called (redis_connector.rs:103, 108).
BookReadCall(r, query) ==
    /\ rpc[r] = "idle"
    /\ rpc' = [rpc EXCEPT ![r] = "lock"]
    /\ rop' = [rop EXCEPT ![r] = query]
    /\ rseen' = [rseen EXCEPT ![r] = NotRead]
    /\ UNCHANGED <<book, bwriter, breaders, spc, supd, sfail, bapplied, rcopy>>
    /\ UNCHANGED notBookVars

\* Mutant of BookReadLock: the read guard is handed out while the write
\* guard is held.
BookReadLockDuringWrite(r) ==
    /\ rpc[r] = "lock"
    /\ breaders' = breaders \cup {r}
    /\ rpc' = [rpc EXCEPT ![r] = "copy"]
    /\ UNCHANGED <<book, bwriter, spc, supd, sfail, bapplied, rop, rcopy, rseen>>
    /\ UNCHANGED notBookVars

\* self.servers.read().await (redis_connector.rs:104, 109).
BookReadLock(r) ==
    /\ rpc[r] = "lock"
    /\ ~bwriter
    /\ breaders' = breaders \cup {r}
    /\ rpc' = [rpc EXCEPT ![r] = "copy"]
    /\ UNCHANGED <<book, bwriter, spc, supd, sfail, bapplied, rop, rcopy, rseen>>
    /\ UNCHANGED notBookVars

\* The clone, and the guard dropped on return (redis_connector.rs:105-106,
\* 110-111).
BookReadCopy(r) ==
    /\ rpc[r] = "copy"
    /\ rcopy' = [rcopy EXCEPT ![r] = QueryResult(book, rop[r])]
    /\ rseen' = [rseen EXCEPT ![r] = Len(bapplied)]
    /\ breaders' = breaders \ {r}
    /\ rpc' = [rpc EXCEPT ![r] = "idle"]
    /\ UNCHANGED <<book, bwriter, spc, supd, sfail, bapplied, rop>>
    /\ UNCHANGED notBookVars

NextBook ==
    \/ \E server_update \in ServerUpdates : BookNext(server_update)
    \/ \E failure \in SubscriberFailures : BookNextFails(failure)
    \/ BookWriteLock
    \/ BookInsert
    \/ \E r \in Readers, query \in {0} \cup BookServers : BookReadCall(r, query)
    \/ \E r \in Readers : BookReadLock(r)
    \/ \E r \in Readers : BookReadCopy(r)

SpecBook == InitBook /\ [][NextBook]_vars

\* C26 - Address book discipline: the update task holds the write guard only
\* between taking it and the insert, never while it waits for a message;
\* a reader holds a read guard only while it copies; the guards exclude each
\* other; the map is the first map with the applied updates inserted in
\* order, so an update replaces the entry of its server and nothing else;
\* and a query returns what that map held when the query copied.
C26_AddressBook ==
    /\ bwriter <=> spc = "insert"
    /\ breaders = {r \in Readers : rpc[r] = "copy"}
    /\ bwriter => breaders = {}
    /\ book = BookAfter(bapplied)
    /\ \A r \in Readers :
          rseen[r] # NotRead =>
             rcopy[r] = QueryResult(BookAfter(SubSeq(bapplied, 1, rseen[r])), rop[r])
    /\ \A k \in 1..Len(bapplied) :
          LET before == BookAfter(SubSeq(bapplied, 1, k - 1))
              after == BookAfter(SubSeq(bapplied, 1, k))
          IN  /\ after[bapplied[k].id] = bapplied[k]
              /\ \A id \in BookServers \ {bapplied[k].id} : after[id] = before[id]

\* Two updates have been applied, the second for a server that was not in
\* the first map; one reader has the new ServerInfo of that server, the
\* other reader waits for the write guard to be dropped.
C26_Witness ==
    /\ Len(bapplied) = 2
    /\ \E r \in Readers :
          /\ rop[r] = 2
          /\ rseen[r] = 2
          /\ rcopy[r] = bapplied[2]
          /\ FirstBook[2] = NoServerInfo
    /\ \E r \in Readers : rop[r] = 0 /\ rseen[r] = 1 /\ rcopy[r] # FirstBook

\* C27 - Address-book subscriber errors are fatal: once the update task has
\* ended on a closed stream or an undecodable payload, the server does
\* nothing more; in particular no query is made of or answered from the
\* address book.
C27_SubscriberFatal ==
    [][spc = "dead" => UNCHANGED <<rpc, rop, rcopy, rseen, breaders>>]_vars

(***************************************************************************)
(* Server::new of several servers at once (lib.rs:243-250): set_group and  *)
(* set_region (redis_connector.rs:218-241) against one Redis.              *)
(***************************************************************************)
notPubVars == <<poolVars, routeVars, searchVars, zmqVars, connVars, bookVars>>

\* graph_provider.get_region(region_id) (lib.rs:245).
PublishedGraph(region_id) == LoadGraph(NodeRows(region_id), VertexRows("all", region_id), region_id)

\* redis_connector.rs:229-234: the nodes of the graph whose region is
\* region_id.
NodesOfRegion(graph, region_id) ==
    {id \in DOMAIN graph.nodes : graph.nodes[id].region = region_id}

\* The region publisher p is at, and the node ids of its set_region.
RegionAt(p) == GroupRegions(GroupOf(p))[pidx[p]]

IdsAt(p) == NodesOfRegion(PublishedGraph(RegionAt(p)), RegionAt(p))

\* Mutant of del: nothing is deleted.
del_nothing(node_region, ids) == node_region

\* DEL key [key ...]: the keys are removed.
del(node_region, ids) == [n \in DOMAIN node_region \ ids |-> node_region[n]]

\* MSETNX key value [key value ...]: every key is set, unless one of them
\* exists, in which case none is.
mset_nx(node_region, ids, region_id) ==
    IF ids \cap DOMAIN node_region # {} THEN node_region
    ELSE [n \in ids |-> region_id] @@ node_region

\* What an earlier run may have left in node_region.
LeftOver == {<<>>, (1 :> 1) @@ (4 :> 2)}

InitPublish ==
    /\ PoolIdle
    /\ RouteIdle
    /\ SearchIdle
    /\ ZmqIdle
    /\ ConnIdle
    /\ BookIdle
    /\ pdir \in {[region_server |-> <<>>, node_region |-> left] : left \in LeftOver}
    /\ ppc = [p \in Publishers |-> "set_group"]
    /\ pidx = [p \in Publishers |-> 1]

\* lib.rs:246: set_group(region_id, group_id).
PublishSetGroup(p) ==
    /\ ppc[p] = "set_group"
    /\ pdir' = set_group(pdir, RegionAt(p), GroupOf(p))
    /\ ppc' = [ppc EXCEPT ![p] = "del"]
    /\ UNCHANGED pidx
    /\ UNCHANGED notPubVars

\* redis_connector.rs:235: conn.del(&*nodes_ids).
PublishDel(p) ==
    /\ ppc[p] = "del"
    /\ pdir' = [pdir EXCEPT !.node_region = del(@, IdsAt(p))]
    /\ ppc' = [ppc EXCEPT ![p] = "mset_nx"]
    /\ UNCHANGED pidx
    /\ UNCHANGED notPubVars

\* redis_connector.rs:236-239: conn.mset_nx(&*nodes_vals); set_region
\* returns and the loop of Server::new goes on to the next region.
PublishMsetNx(p) ==
    /\ ppc[p] = "mset_nx"
    /\ pdir' = [pdir EXCEPT !.node_region = mset_nx(@, IdsAt(p), RegionAt(p))]
    /\ IF pidx[p] < Len(GroupRegions(GroupOf(p)))
       THEN /\ pidx' = [pidx EXCEPT ![p] = @ + 1]
            /\ ppc' = [ppc EXCEPT ![p] = "set_group"]
       ELSE /\ pidx' = pidx
            /\ ppc' = [ppc EXCEPT ![p] = "done"]
    /\ UNCHANGED notPubVars

NextPublish ==
    \/ \E p \in Publishers : PublishSetGroup(p)
    \/ \E p \in Publishers : PublishDel(p)
    \/ \E p \in Publishers : PublishMsetNx(p)

SpecPublish == InitPublish /\ [][NextPublish]_vars

\* The regions some publisher publishes.
PublishedRegions == UNION {Range(GroupRegions(GroupOf(p))) : p \in Publishers}

\* The keys whose value, or whose presence, a step changes.
ChangedKeys ==
    {n \in DOMAIN pdir.node_region \cup DOMAIN pdir'.node_region :
        \/ n \notin DOMAIN pdir.node_region
        \/ n \notin DOMAIN pdir'.node_region
        \/ pdir.node_region[n] # pdir'.node_region[n]}

\* C28 - set_region publication: a step of set_region(graph, r) touches only
\* keys of nodes of the graph whose region is r and writes only the value
\* r; when its insert-if-absent step has run, every such node is mapped to
\* r; and once every server has finished, in whatever order the delete and
\* insert-if-absent steps of the servers were taken, node_region maps every
\* node of every published region to its region and holds nothing else.
C28_SetRegionPublication ==
    /\ [][\A p \in Publishers :
             (ppc[p] \in {"del", "mset_nx"} /\ ppc'[p] # ppc[p]) =>
                /\ ChangedKeys \subseteq IdsAt(p)
                /\ \A n \in ChangedKeys \cap DOMAIN pdir'.node_region :
                      pdir'.node_region[n] = RegionAt(p)
                /\ ppc[p] = "mset_nx" =>
                      \A n \in IdsAt(p) :
                         /\ n \in DOMAIN pdir'.node_region
                         /\ pdir'.node_region[n] = RegionAt(p)]_vars
    /\ []((\A p \in Publishers : ppc[p] = "done") =>
             /\ \A r \in PublishedRegions :
                   \A n \in NodesOfRegion(PublishedGraph(r), r) :
                      /\ n \in DOMAIN pdir.node_region
                      /\ pdir.node_region[n] = r
             /\ DOMAIN pdir.node_region =
                   UNION {NodesOfRegion(PublishedGraph(r), r) : r \in PublishedRegions})

\* Two servers of one group have both deleted the keys of the same region
\* and neither has inserted them yet, while the server of the other group
\* has published region 0.
C28_Witness ==
    /\ \E p, q \in Publishers :
          /\ p # q
          /\ ppc[p] = "mset_nx"
          /\ ppc[q] = "mset_nx"
          /\ RegionAt(p) = RegionAt(q)
          /\ IdsAt(p) \cap DOMAIN pdir.node_region = {}
    /\ \E n \in DOMAIN pdir.node_region : pdir.node_region[n] = 0

(***************************************************************************)
(* Failures while the possibilities of one request are handled.            *)
(***************************************************************************)
\* C29 - A transport send error on one forwarded hop drops only that
\* branch: when a queued send fails, the failing forward is the only queued
\* forward of the request that is not sent.
C29_SendErrorDropsOneBranch ==
    (lastserve.status = "err" /\ lastserve.error = "send_request") =>
        Len(lastserve.unsent) = 1

\* C30 - Forwards are sent only after all possibilities have been
\* processed: a serve_request in which get_region or get_server_id fails
\* returns an error, sends no forward, although it may have queued some,
\* and sends no reply.
C30_DirectoryErrorDropsRequest ==
    [][lastserve'.error \in {"get_region", "get_server_id"} =>
          /\ lastserve'.status = "err"
          /\ lastserve'.sent = <<>>
          /\ lastserve'.reply = <<>>
          /\ replies' = replies
          /\ Len(fwdlog') = Len(fwdlog)
          /\ BagCardinality(inflight') = BagCardinality(inflight) - 1]_vars

\* A forwarded request was dropped on a directory failure at a possibility
\* after the first, with forwards for the earlier ones already queued.
C30_Witness ==
    /\ lastserve.error \in {"get_region", "get_server_id"}
    /\ Len(lastserve.unsent) >= 1
    /\ lastserve.hops >= 1

(***************************************************************************)
(* Properties of Worker::serve_request: the choice of the graph.           *)
(***************************************************************************)
\* C31 - Request for a node not served here: when no graph of the serving
\* server holds request.last, the call ends in Err (the worker's loop goes on
\* to its free-channel send) without a search, a reply, a forward or a
\* directory query: nothing was sent, queued or skipped, and the replies and
\* the forwards of the federation are what they were.
C31_NotServedHere ==
    [][(lastserve'.status # "none"
            /\ lastserve' # lastserve
            /\ \A r \in Range(GroupRegions(lastserve'.server)) :
                  lastserve'.req.last \notin DOMAIN Graphs(data, lastserve'.server)[r].nodes)
        => /\ lastserve'.status = "err"
           /\ lastserve'.error = "Not served region"
           /\ lastserve'.start_region = NoRegion
           /\ lastserve'.reply = <<>>
           /\ lastserve'.sent = <<>>
           /\ lastserve'.unsent = <<>>
           /\ lastserve'.skipped = <<>>
           /\ replies' = replies
           /\ Len(fwdlog') = Len(fwdlog)]_vars

\* A forward has been served by a server none of whose graphs holds its
\* frontier node.
C31_Witness ==
    /\ lastserve.status = "err"
    /\ lastserve.error = "Not served region"
    /\ lastserve.hops > 0
    /\ \A r \in Range(GroupRegions(lastserve.server)) :
          lastserve.req.last \notin DOMAIN Graphs(data, lastserve.server)[r].nodes

\* C32 - start_region is the region of request.last: whenever a call
\* searches a graph, that graph's region_idx is the region attribute of the
\* node request.last, also when several graphs of the server hold the node.
C32_StartRegionIsRegionOfLast ==
    lastserve.start_region # NoRegion =>
        Graphs(data, lastserve.server)[lastserve.start_region]
            .nodes[lastserve.req.last].region = lastserve.start_region

(***************************************************************************)
(* Properties of Graph::find_way and Graph::find_way_local (read off sin   *)
(* and sout).                                                              *)
(***************************************************************************)
\* The graph stores an edge between a and b whose bit for the target's
\* region is set.
HintedEdge(graph, target, a, b) ==
    \E v \in DOMAIN graph.vertices :
        /\ {graph.vertices[v].a, graph.vertices[v].b} = {a, b}
        /\ graph.vertices[v].region_bits[target[2] + 1]

\* Node n has an edge, with the bit for the target's region set, to a node
\* the graph does not store.
HintedEdgeOut(graph, target, n) ==
    \E v \in DOMAIN graph.vertices :
        /\ n \in {graph.vertices[v].a, graph.vertices[v].b}
        /\ {graph.vertices[v].a, graph.vertices[v].b} \ DOMAIN graph.nodes # {}
        /\ graph.vertices[v].region_bits[target[2] + 1]

\* find_way has returned its possibilities.
WayReturned ==
    /\ sout # NoSearch
    /\ sin.target[2] # sin.graph.region_idx
    /\ sout.status = "ok"

\* C33 - Routing-hint filter: in every possibility find_way returns, every
\* two consecutive points of the path are joined by an edge whose bit for
\* the target's region is 1, and so is the boundary edge: the edge from the
\* last point of the path to the continuation node (CRegionKnown; a search
\* that starts on a stored foreign node crosses no edge), or the edge on
\* which the search left the stored nodes (CRegionUnknown).
C33_RoutingHintFilter ==
    WayReturned =>
        \A k \in 1..Len(sout.results) :
            LET path == sout.results[k].path
                continuation == sout.results[k].continuation
                last == path[Len(path)].id
            IN /\ \A i \in 1..(Len(path) - 1) :
                      HintedEdge(sin.graph, sin.target, path[i].id, path[i + 1].id)
               /\ IF continuation.kind = "CRegionKnown"
                  THEN \/ HintedEdge(sin.graph, sin.target, last, continuation.node)
                       \/ (Len(path) = 1 /\ continuation.node = last)
                  ELSE HintedEdgeOut(sin.graph, sin.target, last)

\* find_way has returned a possibility of two points or more from a graph
\* in which an edge at the start node and an edge at the second point have
\* the bit of the target's region clear.
C33_Witness ==
    /\ WayReturned
    /\ \E k \in 1..Len(sout.results) :
          /\ Len(sout.results[k].path) >= 2
          /\ \A i \in 1..2 :
                \E v \in DOMAIN sin.graph.vertices :
                    /\ sout.results[k].path[i].id
                          \in {sin.graph.vertices[v].a, sin.graph.vertices[v].b}
                    /\ ~sin.graph.vertices[v].region_bits[sin.target[2] + 1]

\* The nodes of the graph's own region that find_way can reach from node n
\* over edges whose bit for the target's region is set.
RECURSIVE HintedReach(_, _, _)
HintedReach(graph, target, reached) ==
    LET more == {n \in DOMAIN graph.nodes :
                    /\ graph.nodes[n].region = graph.region_idx
                    /\ \E m \in reached : HintedEdge(graph, target, m, n)}
    IN IF more \subseteq reached THEN reached
       ELSE HintedReach(graph, target, reached \cup more)

\* The boundary neighbours: stored foreign nodes and nodes the graph does not
\* store, at the other end of such an edge from a reachable node.
BoundaryNeighbours(graph, source, target) ==
    LET reached == HintedReach(graph, target, {source[1]})
        ends == UNION {{graph.vertices[v].a, graph.vertices[v].b}
                        : v \in DOMAIN graph.vertices}
    IN {b \in ends :
            /\ b \notin DOMAIN graph.nodes \/ graph.nodes[b].region # graph.region_idx
            /\ \E m \in reached : HintedEdge(graph, target, m, b)}

\* C34 - One possibility per boundary neighbour: no two possibilities of one
\* find_way call have the same continuation node, and every boundary
\* neighbour is the continuation node of a possibility.
C34_OnePossibilityPerNeighbour ==
    WayReturned =>
        /\ \A j, k \in 1..Len(sout.results) :
              j # k => get_node_idx(sout.results[j].continuation)
                          # get_node_idx(sout.results[k].continuation)
        /\ \A b \in BoundaryNeighbours(sin.graph, sin.source, sin.target) :
              \E k \in 1..Len(sout.results) :
                  get_node_idx(sout.results[k].continuation) = b

\* The nodes stored in the graph that can be reached from the nodes
\* `reached` over edges between stored nodes.
RECURSIVE StoredReach(_, _)
StoredReach(graph, reached) ==
    LET more == {n \in DOMAIN graph.nodes :
                    \E m \in reached : \E v \in DOMAIN graph.vertices :
                        {graph.vertices[v].a, graph.vertices[v].b} = {m, n}}
    IN IF more \subseteq reached THEN reached
       ELSE StoredReach(graph, reached \cup more)

\* find_way_local has returned.
LocalReturned == sout # NoSearch /\ sin.target[2] = sin.graph.region_idx

\* What a worker that holds only the graph searched does with the request
\* for this search: the client's request with the source as its frontier.
SearchServed ==
    serve_request((sin.graph.region_idx :> sin.graph), Directory("published", "useful"),
                  PathRequest(7, sin.source, sin.target, sin.source[1], <<>>, 0, <<>>))

\* C35 - find_way_local returns StartNodeNotFound when the source is not a
\* node of the graph; otherwise it returns TargetReached when the target can
\* be reached from the source through nodes stored in the graph and
\* Unreachable when it cannot; and when the search fails, the worker's call
\* ends in Err with no reply and no forward sent.
C35_UnreachableExactly ==
    LocalReturned =>
        /\ IF sin.source[1] \notin DOMAIN sin.graph.nodes
           THEN sout = SearchErr("StartNodeNotFound")
           ELSE IF sin.target[1] \in StoredReach(sin.graph, {sin.source[1]})
           THEN /\ sout.status = "ok"
                /\ Len(sout.results) = 1
                /\ sout.results[1].kind = "TargetReached"
           ELSE sout = SearchErr("Unreachable")
        /\ sout.status = "err" =>
              \A out \in SearchServed :
                  out.status = "err" /\ out.reply = <<>> /\ out.sent = <<>>

\* find_way_local has returned Unreachable for a target that has an edge in
\* the graph, from a source that has one as well.
C35_Witness ==
    /\ LocalReturned
    /\ sout = SearchErr("Unreachable")
    /\ sin.graph.nodes[sin.source[1]].connections # <<>>
    /\ sin.graph.nodes[sin.target[1]].connections # <<>>
    /\ \E out \in SearchServed : out.error = "Unreachable"

\* The weights of all the edges of the graph together.
TotalWeight(graph) ==
    SumSeq([e \in 1..Len(SearchEdgeEnds) |->
               IF e \in DOMAIN graph.vertices THEN graph.vertices[e].weight ELSE 0])

\* C36 - Cost arithmetic covers the u64 range: when the weights of all the
\* edges of the graph together fit in u64, find_way_local returns what the
\* same search returns on words so wide that no sum leaves their positive
\* range: the same walk with its weight as cost, chosen by comparing the
\* accumulated costs in their numeric order.
C36_CostCoversU64 ==
    (LocalReturned /\ TotalWeight(sin.graph) < TwoTo(CostBits))
        => sout \in find_way_local_on(sin.graph, sin.source, sin.target, CostBits + 4)

(***************************************************************************)
(* Properties of the ZMQ transport.                                        *)
(***************************************************************************)
\* The senders that are inside an exchange on socket t: about to send, or
\* waiting for the reply to what they sent.
Exchanging(t) == {s \in Senders : ztarget[s] = t /\ zpc[s] \in {"send", "recv"}}

\* C37 - Exclusive exchange: a sender inside an exchange holds the mutex of
\* the socket, at most one sender is inside an exchange on one socket, and
\* no sender sends on a socket while another sender waits there for its
\* reply: sends and receives on one socket alternate.
C37_ExclusiveExchange ==
    /\ [](\A t \in ZmqSockets :
            /\ \A s \in Exchanging(t) : zlock[t] = s
            /\ Cardinality(Exchanging(t)) <= 1)
    /\ [][\A s \in Senders :
            Len(zwire'[s]) > Len(zwire[s]) =>
                \A o \in Senders \ {s} : ~(ztarget[o] = ztarget[s] /\ zpc[o] = "recv")]_vars

\* Two workers send to the same peer: one waits for the reply to its second
\* send while the other, which has also sent before, waits for the mutex.
C37_Witness ==
    \E s, o \in Senders :
        /\ s # o
        /\ ztarget[s] = ztarget[o]
        /\ zpc[s] = "recv"
        /\ Len(zwire[s]) = 2
        /\ zpc[o] = "loop"
        /\ zwire[o] # <<>>

(***************************************************************************)
(* SpecZmqPeer: the ZMQ sender of one server together with the two things  *)
(* it depends on: the update task of the address book it was built from    *)
(* (redis_connector.rs:119-143, lib.rs:103-120) and the listener of the    *)
(* peer server it sends to (node_connector.rs:106-127).  The peer's        *)
(* listener is a PULL socket: get_new_request takes a message and hands    *)
(* the request to the dispatcher, and nothing in the peer writes to the    *)
(* connection the message came on.  The sender's recv (node_connector.rs:  *)
(* 189) therefore waits, or fails.                                         *)
(***************************************************************************)
InitZmqPeer ==
    /\ PoolIdle
    /\ RouteIdle
    /\ SearchIdle
    /\ IoIdle

\* ZMQNodeListener::get_new_request (node_connector.rs:121-127) of the peer:
\* the next message of sender s is received and deserialized.
ListenerRecv(s) ==
    /\ lgot[s] < Len(zwire[s])
    /\ lgot' = [lgot EXCEPT ![s] = @ + 1]
    /\ UNCHANGED <<zpc, zreq, ztarget, zlock, zwire, zbad, zlast, zerr>>
    /\ UNCHANGED notZmqVars

NextZmqPeer ==
    \/ \E server_update \in ServerUpdates : BookNext(server_update)
    \/ BookWriteLock
    \/ BookInsert
    \/ \E s \in Senders, target_id \in ZmqTargets, request \in ZmqRequests :
          ZmqCall(s, target_id, request)
    \/ \E s \in Senders : ZmqNoTarget(s)
    \/ \E s \in Senders : ZmqLock(s)
    \/ \E s \in Senders : ZmqSend(s)
    \/ \E s \in Senders : ZmqSendError(s)
    \/ \E s \in Senders : ZmqRecvError(s)
    \/ \E s \in Senders : ListenerRecv(s)

SpecZmqPeer == InitZmqPeer /\ [][NextZmqPeer]_vars

\* The executor runs every task that can take a step, the socket's mutex is
\* handed to a waiting task, a connected socket sends, and the peer's
\* dispatcher keeps calling get_new_request.  That a send or a receive
\* fails is not owed to anyone.
SpecZmqPeerFair ==
    /\ SpecZmqPeer
    /\ \A s \in Senders :
          /\ WF_vars(ZmqNoTarget(s))
          /\ WF_vars(ZmqLock(s))
          /\ WF_vars(ZmqSend(s))
          /\ WF_vars(ListenerRecv(s))

\* C38 - ZMQ forward is acknowledged: once the peer's listener has received
\* the request a sender waits on, the sender's send_request eventually
\* returns (with Ok after "OK", or with an error).
C38_ForwardAcknowledged ==
    \A s \in Senders :
        (zpc[s] = "recv" /\ lgot[s] = Len(zwire[s])) ~> (zpc[s] \in {"ok", "err"})

\* C39 - Dynamic membership reaches the ZMQ sender: send_request fails with
\* TargetDoesNotExist only for a target the address book does not hold at
\* that moment.
C39_DynamicMembership ==
    [][\A s \in Senders :
          (zerr'[s] = "TargetDoesNotExist" /\ zerr[s] # "TargetDoesNotExist")
              => (ztarget[s] \notin BookServers \/ book[ztarget[s]] = NoServerInfo)]_vars

(***************************************************************************)
(* Properties of the requests inside one server (SpecPool).                *)
(***************************************************************************)
\* Requests sent on the workers' input channels so far.
PlacedCount == SumSeq([i \in 1..WorkerCount |-> Len(placed[i - 1])])

\* What a worker has received, followed by what waits in its channel, is
\* what was sent on its channel, in the order of the sends; the request it
\* serves is the last one it received.
PlacedInOrder ==
    \A w \in Workers :
        /\ placed[w] = taken[w] \o task[w]
        /\ Len(taken[w]) = received[w]
        /\ (wpc[w] \in {"serving", "done"} => wcur[w] = taken[w][Len(taken[w])])

====
